---- MODULE Spec2Model ----
(***************************************************************************)
(* Deploy orchestrator of the dockyard daemon: the shared DaemonState      *)
(* (record map, job queue), the persisted project store, the scheduler     *)
(* consumer with its per-slug build-exclusion set, the Deploy and Rebuild  *)
(* procedures and the control-API operations that feed them.               *)
(*                                                                         *)
(* Every action is one lock-delimited or await-delimited step of the code. *)
(* The container engine is modelled by its contract: names are unique,     *)
(* create fails on a name conflict or a missing image, start fails when    *)
(* the host port is bound by another running container, stop/remove fail   *)
(* on an absent container, the name filter of list_containers matches the  *)
(* exact name.  Failures of the environment (network, build recipe,        *)
(* engine) are nondeterministic choices at the step that can fail.         *)
(*                                                                         *)
(* The specifications share the state.  Spec is the orchestrator: the      *)
(* control-API calls, the scheduler and its tasks.  WebhookSpec is one     *)
(* webhook delivery to a daemon that holds a record, over the header and   *)
(* body values of the model.  SaveSpec is the closing block of a build     *)
(* with the file-system steps of its save kept apart, in a daemon that can *)
(* be killed and restarted.  SlugSpec is the derivation of a slug from a   *)
(* project name.  BootSpec is run() from the loaded records to the spawn   *)
(* of the scheduler consumer.  WatchSpec is the operator's start, stop and *)
(* rebuild requests against the rounds of the health watcher.  SwitchSpec  *)
(* is the second half of a rebuild, from its port step on, against the     *)
(* watcher.  JobSpec is the scheduler consumer over the four kinds of job. *)
(* ShutSpec is run() from the PID file to its exit on the interrupt        *)
(* signal.  NameSpec is one deploy request from its project name to its    *)
(* response.                                                               *)
(***************************************************************************)
EXTENDS FiniteSets, Integers, Sequences, TLC

\* ---------------------------------------------------------------- bounds
MaxCalls == 2
MaxTasks == 2
QueueCap == 2
MaxPorts == 2
MaxByte == 2      \* the bytes of a webhook body are 0..MaxByte
DigestLen == 2    \* bytes of a message authentication tag in the model
MaxNameLen == 3   \* characters of a project name given to slugify

\* Slugs the deploy requests derive.  "a-new" is chosen so that the transient
\* container name of "a" coincides with the canonical name of "a-new".
Slugs == {"a", "a-new"}
Ports == 1..MaxPorts
CallIds == 1..MaxCalls
TaskIds == 1..MaxTasks

VARIABLES
    projects,    \* DaemonState.projects : slug -> ProjectConfig
    disk,        \* <data>/projects/<slug>/project.toml : slug -> ProjectConfig
    repo,        \* slugs whose <data>/projects/<slug>/repo working tree exists
    queue,       \* the bounded mpsc channel of Job
    building,    \* the scheduler's build-exclusion set
    tasks,       \* the tasks spawned by the scheduler consumer
    spawned,     \* number of jobs the consumer has received
    calls,       \* control-API requests in progress
    containers,  \* engine: container name -> [state, image, port]
    images,      \* engine: image tag -> image id
    clock        \* wall clock read by Utc::now(); a build is what takes time

vars == <<projects, disk, repo, queue, building, tasks, spawned, calls,
          containers, images, clock>>

\* ------------------------------------------------------- project records
NoConfig ==
    [slug |-> "", host_port |-> 0, container_name |-> "", image_name |-> "",
     branch |-> <<>>, secret |-> <<>>,
     created_at |-> 0, updated_at |-> 0, enabled |-> FALSE]

\* The branch of the deploy requests of the main specification, and the value
\* generate_webhook_secret() gives there: the deploy, rebuild and delete
\* procedures never read either.  WebhookInit ranges over Branches and Secrets.
DefaultBranch == <<"main">>
DefaultSecret == <<0>>

ProjectConfigNewBareNames(slug, host_port, now) ==
    [slug |-> slug, host_port |-> host_port,
     container_name |-> slug,
     image_name |-> slug,
     branch |-> DefaultBranch, secret |-> DefaultSecret,
     created_at |-> now, updated_at |-> now, enabled |-> TRUE]

ProjectConfigNew(slug, host_port, now) ==
    [slug |-> slug, host_port |-> host_port,
     container_name |-> "dockyard-" \o slug,
     image_name |-> "dockyard/" \o slug,
     branch |-> DefaultBranch, secret |-> DefaultSecret,
     created_at |-> now, updated_at |-> now, enabled |-> TRUE]

\* map/file-system helpers: a function with one key set or removed
Put(f, k, v) == [x \in DOMAIN f \cup {k} |-> IF x = k THEN v ELSE f[x]]
Del(f, k) == [x \in DOMAIN f \ {k} |-> f[x]]

\* ProjectConfig::save : create the per-slug directory and write project.toml
ProjectConfigSave(d, cfg) == Put(d, cfg.slug, cfg)

\* ------------------------------------------------------------------ jobs
\* served is a history field: TRUE once a rebuild procedure of the job's slug
\* has begun its pull step after the job was accepted onto the queue.
Job(kind, slug) == [kind |-> kind, slug |-> slug, commit_sha |-> "None", served |-> FALSE]

\* Job::Rebuild { slug, commit_sha: Some(after) }
RebuildJobAt(slug, after) == [Job("Rebuild", slug) EXCEPT !.commit_sha = after]

\* ------------------------------------------------------ container engine
LatestTag(image_name) == image_name \o ":latest"
BuildTag(image_name, stamp) == image_name \o ":build-" \o ToString(stamp)
TempName(container_name) == container_name \o "-new"

BoundPorts ==
    {containers[n].port : n \in {m \in DOMAIN containers : containers[m].state = "running"}}

\* find_available_port: the ports the OS may hand out (not bound right now)
FreePorts == Ports \ BoundPorts

Running(cs, name) == name \in DOMAIN cs /\ cs[name].state = "running"

\* DockerClient::stop_container, errors ignored by the caller
StopContainer(cs, name) ==
    IF Running(cs, name) THEN [cs EXCEPT ![name].state = "exited"] ELSE cs

RemoveContainerUnlessRunning(cs, name) ==
    IF name \in DOMAIN cs /\ cs[name].state # "running" THEN Del(cs, name) ELSE cs

\* DockerClient::remove_container (force), errors ignored by the caller
RemoveContainer(cs, name) == IF name \in DOMAIN cs THEN Del(cs, name) ELSE cs

\* DockerClient::remove_image (force), errors ignored by the caller
RemoveImage(is, tag) == IF tag \in DOMAIN is THEN Del(is, tag) ELSE is

\* DockerClient::create_and_start_container.  engine is the environment's
\* choice: "ok", "create_fails" or "start_fails".  The result is the engine
\* state after the call and the outcome seen by the caller.
CreateAndStart(cs, is, name, tag, port, engine) ==
    IF name \in DOMAIN cs THEN [cs |-> cs, res |-> "name_conflict"]
    ELSE IF tag \notin DOMAIN is THEN [cs |-> cs, res |-> "no_such_image"]
    ELSE IF engine = "create_fails" THEN [cs |-> cs, res |-> "create_failed"]
    ELSE LET created == Put(cs, name, [state |-> "created", image |-> is[tag], port |-> port])
         IN  IF port \in {cs[n].port : n \in {m \in DOMAIN cs : cs[m].state = "running"}}
             THEN [cs |-> created, res |-> "port_in_use"]
             ELSE IF engine = "start_fails"
             THEN [cs |-> created, res |-> "start_failed"]
             ELSE [cs |-> [created EXCEPT ![name].state = "running"], res |-> "ok"]

EngineChoices == {"ok", "create_fails", "start_fails"}

\* ------------------------------------------------------------------ Init
NoHeader == <<"absent">>
NoRequest == [header |-> NoHeader, body |-> <<>>]
IdleCall ==
    [op |-> "none", slug |-> "", pc |-> "idle", res |-> "", cfg |-> NoConfig,
     req |-> NoRequest]
IdleTask ==
    [pc |-> "idle", kind |-> "none", slug |-> "", res |-> "", snap |-> NoConfig,
     temp_port |-> 0, stamp |-> 0, served |-> FALSE]

Init ==
    /\ projects = <<>>
    /\ disk = <<>>
    /\ repo = {}
    /\ queue = <<>>
    /\ building = {}
    /\ tasks = [t \in TaskIds |-> IdleTask]
    /\ spawned = 0
    /\ calls = [c \in CallIds |-> IdleCall]
    /\ containers = <<>>
    /\ images = <<>>
    /\ clock = 1

\* A request is served by the lowest unused request slot.
NextCall(c) ==
    /\ calls[c].pc = "idle"
    /\ \A d \in CallIds : d < c => calls[d].pc # "idle"

Return(c, res) == [calls EXCEPT ![c].pc = "done", ![c].res = res]

\* ------------------------------------------------- lookups in the record map
ContainsKeyAlways(map, slug) == TRUE

\* projects.contains_key(slug) under the read lock
ContainsKey(map, slug) == slug \in DOMAIN map

GetOrDefault(map, slug) ==
    IF slug \in DOMAIN map THEN map[slug] ELSE ProjectConfigNew(slug, 0, 0)

\* projects.get(slug) under the read lock; NoConfig stands for None
Get(map, slug) == IF slug \in DOMAIN map THEN map[slug] ELSE NoConfig

\* ------------------------------------------- DaemonState::deploy_project
SlugTakenNeverChecked(map, slug) == FALSE

\* projects.contains_key(&slug)
SlugTaken(map, slug) == slug \in DOMAIN map

\* read lock: reject a slug that is already a key of the map
DeployProjectCheck(c) ==
    /\ NextCall(c)
    /\ \E slug \in Slugs :
        IF SlugTaken(projects, slug)
        THEN calls' = [calls EXCEPT ![c] =
                 [IdleCall EXCEPT !.op = "deploy", !.slug = slug, !.pc = "done",
                                  !.res = "ProjectAlreadyExists"]]
        ELSE calls' = [calls EXCEPT ![c] =
                 [IdleCall EXCEPT !.op = "deploy", !.slug = slug, !.pc = "port"]]
    /\ UNCHANGED <<projects, disk, repo, queue, building, tasks, spawned,
                   containers, images, clock>>

\* find_available_port()? and ProjectConfig::new
DeployProjectPort(c) ==
    /\ calls[c].op = "deploy" /\ calls[c].pc = "port"
    /\ IF FreePorts = {}
       THEN calls' = Return(c, "Config")
       ELSE \E p \in FreePorts :
                calls' = [calls EXCEPT ![c].pc = "save",
                             ![c].cfg = ProjectConfigNew(calls[c].slug, p, clock)]
    /\ UNCHANGED <<projects, disk, repo, queue, building, tasks, spawned,
                   containers, images, clock>>

\* config.save()?
DeployProjectSave(c) ==
    /\ calls[c].op = "deploy" /\ calls[c].pc = "save"
    /\ \E io_ok \in BOOLEAN :
        IF io_ok
        THEN /\ disk' = ProjectConfigSave(disk, calls[c].cfg)
             /\ calls' = [calls EXCEPT ![c].pc = "send"]
        ELSE /\ disk' = disk
             /\ calls' = Return(c, "Io")
    /\ UNCHANGED <<projects, repo, queue, building, tasks, spawned,
                   containers, images, clock>>

\* scheduler_tx.send(Job::Deploy { slug }).await : blocks while the channel is full
DeployProjectSend(c) ==
    /\ calls[c].op = "deploy" /\ calls[c].pc = "send"
    /\ Len(queue) < QueueCap
    /\ queue' = Append(queue, Job("Deploy", calls[c].slug))
    /\ calls' = [calls EXCEPT ![c].pc = "insert"]
    /\ UNCHANGED <<projects, disk, repo, building, tasks, spawned,
                   containers, images, clock>>

\* write lock: projects.insert(slug, config); then build the response
DeployProjectInsert(c) ==
    /\ calls[c].op = "deploy" /\ calls[c].pc = "insert"
    /\ projects' = Put(projects, calls[c].slug, calls[c].cfg)
    /\ calls' = Return(c, "ok")
    /\ UNCHANGED <<disk, repo, queue, building, tasks, spawned,
                   containers, images, clock>>

\* ------------------------------------------ DaemonState::rebuild_project
\* read lock: fail with ProjectNotFound unless the slug is a key of the map
RebuildProjectCheck(c) ==
    /\ NextCall(c)
    /\ \E slug \in Slugs :
        IF ~ContainsKey(projects, slug)
        THEN calls' = [calls EXCEPT ![c] =
                 [IdleCall EXCEPT !.op = "rebuild", !.slug = slug, !.pc = "done",
                                  !.res = "ProjectNotFound"]]
        ELSE calls' = [calls EXCEPT ![c] =
                 [IdleCall EXCEPT !.op = "rebuild", !.slug = slug, !.pc = "send"]]
    /\ UNCHANGED <<projects, disk, repo, queue, building, tasks, spawned,
                   containers, images, clock>>

\* scheduler_tx.send(Job::Rebuild { slug, commit_sha: None }).await; Ok(())
RebuildProjectSend(c) ==
    /\ calls[c].op = "rebuild" /\ calls[c].pc = "send"
    /\ Len(queue) < QueueCap
    /\ queue' = Append(queue, Job("Rebuild", calls[c].slug))
    /\ calls' = Return(c, "ok")
    /\ UNCHANGED <<projects, disk, repo, building, tasks, spawned,
                   containers, images, clock>>

\* ------------------------------------------- DaemonState::delete_project
\* read lock: clone container_name and image_name, or fail with ProjectNotFound
DeleteProjectSnapshot(c) ==
    /\ NextCall(c)
    /\ \E slug \in Slugs :
        IF Get(projects, slug) = NoConfig
        THEN calls' = [calls EXCEPT ![c] =
                 [IdleCall EXCEPT !.op = "delete", !.slug = slug, !.pc = "done",
                                  !.res = "ProjectNotFound"]]
        ELSE calls' = [calls EXCEPT ![c] =
                 [IdleCall EXCEPT !.op = "delete", !.slug = slug, !.pc = "stop",
                                  !.cfg = Get(projects, slug)]]
    /\ UNCHANGED <<projects, disk, repo, queue, building, tasks, spawned,
                   containers, images, clock>>

DeleteProjectStop(c) ==
    /\ calls[c].op = "delete" /\ calls[c].pc = "stop"
    /\ containers' = StopContainer(containers, calls[c].cfg.container_name)
    /\ calls' = [calls EXCEPT ![c].pc = "remove"]
    /\ UNCHANGED <<projects, disk, repo, queue, building, tasks, spawned,
                   images, clock>>

DeleteProjectRemove(c) ==
    /\ calls[c].op = "delete" /\ calls[c].pc = "remove"
    /\ containers' = RemoveContainer(containers, calls[c].cfg.container_name)
    /\ calls' = [calls EXCEPT ![c].pc = "remove_image"]
    /\ UNCHANGED <<projects, disk, repo, queue, building, tasks, spawned,
                   images, clock>>

\* remove_image(image_name): a reference without a tag names ":latest"
DeleteProjectRemoveImage(c) ==
    /\ calls[c].op = "delete" /\ calls[c].pc = "remove_image"
    /\ images' = RemoveImage(images, LatestTag(calls[c].cfg.image_name))
    /\ calls' = [calls EXCEPT ![c].pc = "unmap"]
    /\ UNCHANGED <<projects, disk, repo, queue, building, tasks, spawned,
                   containers, clock>>

\* write lock: projects.remove(slug)
DeleteProjectUnmap(c) ==
    /\ calls[c].op = "delete" /\ calls[c].pc = "unmap"
    /\ projects' = IF calls[c].slug \in DOMAIN projects
                   THEN Del(projects, calls[c].slug) ELSE projects
    /\ calls' = [calls EXCEPT ![c].pc = "disk"]
    /\ UNCHANGED <<disk, repo, queue, building, tasks, spawned,
                   containers, images, clock>>

\* ProjectConfig::delete(slug): remove_dir_all of the per-slug directory
DeleteProjectDisk(c) ==
    /\ calls[c].op = "delete" /\ calls[c].pc = "disk"
    /\ disk' = IF calls[c].slug \in DOMAIN disk THEN Del(disk, calls[c].slug) ELSE disk
    /\ repo' = repo \ {calls[c].slug}
    /\ calls' = Return(c, "ok")
    /\ UNCHANGED <<projects, queue, building, tasks, spawned,
                   containers, images, clock>>

\* ------------------------------------------------------ read-only queries
\* Both handlers hold the read lock of the map from the lookup to the
\* response, so a response is a function of one state of the map and engine.

GetContainerStateCreatedStopped(cs, name) ==
    IF name \notin DOMAIN cs THEN "Offline"
    ELSE IF cs[name].state = "running" THEN "Online"
    ELSE IF cs[name].state \in {"exited", "created"} THEN "Stopped"
    ELSE "Offline"

\* DockerClient::get_container_state, errors read as Offline by the callers
GetContainerState(cs, name) ==
    IF name \notin DOMAIN cs THEN "Offline"
    ELSE IF cs[name].state = "running" THEN "Online"
    ELSE IF cs[name].state = "exited" THEN "Stopped"
    ELSE IF cs[name].state = "created" THEN "Starting"
    ELSE "Offline"

\* DockerClient::get_container_stats: one sample of a container as
\* <<memory_mb, cpu_percent>>; a stream without a sample reads <<0, 0>>, and
\* the callers read an error as <<0, 0>> too (unwrap_or((0.0, 0.0)))
GetContainerStats(cs, name) ==
    IF name \in DOMAIN cs /\ cs[name].state = "running" THEN <<1, 1>> ELSE <<0, 0>>

\* DockerClient::get_container_uptime: Some(seconds since started_at), an
\* Option written as a sequence of at most one value; the callers read an
\* error as None (unwrap_or(None))
GetContainerUptime(cs, name) ==
    IF name \in DOMAIN cs /\ cs[name].state = "running" THEN <<1>> ELSE <<>>

\* the ProjectStatus built from a record: the engine is asked for stats and
\* uptime only when the state is Online; otherwise (memory, cpu) is
\* (0.0, 0.0) and uptime is None, and the status is built with
\* memory_usage_mb: Some(memory), cpu_percent: Some(cpu)
ProjectStatus(slug, cfg, cs) ==
    LET state == GetContainerState(cs, cfg.container_name)
        stats == IF state = "Online" THEN GetContainerStats(cs, cfg.container_name)
                 ELSE <<0, 0>>
        uptime == IF state = "Online" THEN GetContainerUptime(cs, cfg.container_name)
                  ELSE <<>>
    IN [slug |-> slug, state |-> state,
        uptime_secs |-> uptime,
        memory_usage_mb |-> <<stats[1]>>, cpu_percent |-> <<stats[2]>>,
        host_port |-> cfg.host_port, last_deploy |-> cfg.updated_at]

\* DaemonState::get_project_detail
GetProjectDetail(map, cs, slug) ==
    IF slug \notin DOMAIN map
    THEN [res |-> "ProjectNotFound", status |-> ProjectStatus(slug, NoConfig, <<>>)]
    ELSE [res |-> "ok", status |-> ProjectStatus(slug, map[slug], cs)]

\* DaemonState::list_project_statuses
ListProjectStatuses(map, cs) == {ProjectStatus(s, map[s], cs) : s \in DOMAIN map}

\* ---------------------------------------------------- scheduler::run loop
DispatchAfterPrevious ==
    /\ queue # <<>>
    /\ spawned < MaxTasks
    /\ \A t \in TaskIds : tasks[t].pc \in {"idle", "done"}
    /\ spawned' = spawned + 1
    /\ tasks' = [tasks EXCEPT ![spawned + 1] =
           [IdleTask EXCEPT !.pc = "start", !.kind = Head(queue).kind,
                            !.slug = Head(queue).slug, !.served = Head(queue).served]]
    /\ queue' = Tail(queue)
    /\ UNCHANGED <<projects, disk, repo, building, calls, containers, images, clock>>

\* rx.recv().await and tokio::spawn: the consumer takes the head of the queue
\* and spawns a detached task for it without waiting for earlier tasks.
Dispatch ==
    /\ queue # <<>>
    /\ spawned < MaxTasks
    /\ spawned' = spawned + 1
    /\ tasks' = [tasks EXCEPT ![spawned + 1] =
           [IdleTask EXCEPT !.pc = "start", !.kind = Head(queue).kind,
                            !.slug = Head(queue).slug, !.served = Head(queue).served]]
    /\ queue' = Tail(queue)
    /\ UNCHANGED <<projects, disk, repo, building, calls, containers, images, clock>>

AlreadyBuildingNeverChecked(set, slug) == FALSE

\* set.contains(&slug) under the write lock of the exclusion set
AlreadyBuilding(set, slug) == slug \in set

SetAfterRejectRemoves(set, slug) == set \ {slug}

\* the exclusion set left behind by a task that found its slug in the set
SetAfterReject(set, slug) == set

ProceedSkipsRelease(res, nextpc) == IF res = "ok" THEN nextpc ELSE "done"

ProceedIgnoresError(res, nextpc) == IF nextpc = "" THEN "release" ELSE nextpc

\* the step that follows a step of a procedure: `?` returns the error to the
\* spawned task, which logs it and goes on to building.remove(&slug)
Proceed(res, nextpc) == IF res = "ok" THEN nextpc ELSE "release"

Advance(t, res, nextpc) ==
    [tasks EXCEPT ![t].pc = Proceed(res, nextpc),
                  ![t].res = IF res = "ok" THEN @ ELSE res]

IsBuildAnyKind(t) == TRUE

\* the job kinds whose task goes through the exclusion set
IsBuild(t) == tasks[t].kind \in {"Deploy", "Rebuild"}

\* Job::Deploy / Job::Rebuild: check-and-insert under building.write()
Acquire(t) ==
    /\ tasks[t].pc = "start" /\ IsBuild(t)
    /\ IF AlreadyBuilding(building, tasks[t].slug)
       THEN /\ building' = SetAfterReject(building, tasks[t].slug)
            /\ tasks' = [tasks EXCEPT ![t].pc = "done", ![t].res = "rejected"]
       ELSE /\ building' = building \cup {tasks[t].slug}
            /\ tasks' = [tasks EXCEPT ![t].pc = "snapshot"]
    /\ UNCHANGED <<projects, disk, repo, queue, spawned, calls, containers, images, clock>>

\* building.write().await.remove(&slug)
Release(t) ==
    /\ tasks[t].pc = "release"
    /\ building' = building \ {tasks[t].slug}
    /\ tasks' = [tasks EXCEPT ![t].pc = "done"]
    /\ UNCHANGED <<projects, disk, repo, queue, spawned, calls, containers, images, clock>>

\* first block of execute_deploy / execute_rebuild: clone the record's fields
\* under the read lock, or fail with "Project not found"
Snapshot(t) ==
    /\ tasks[t].pc = "snapshot"
    /\ IF tasks[t].slug \in DOMAIN projects
       THEN tasks' = [tasks EXCEPT ![t].snap = projects[tasks[t].slug],
                         ![t].pc = IF tasks[t].kind = "Deploy" THEN "clone" ELSE "pull"]
       ELSE tasks' = Advance(t, "not_found", "")
    /\ UNCHANGED <<projects, disk, repo, queue, building, spawned, calls,
                   containers, images, clock>>

\* the same block with the record put back when it is no longer in the map
TouchRecordReinserts(slug, io_ok) ==
    /\ projects' = Put(projects, slug,
           [(IF slug \in DOMAIN projects THEN projects[slug]
             ELSE ProjectConfigNew(slug, 0, clock)) EXCEPT !.updated_at = clock])
    /\ disk' = IF io_ok THEN ProjectConfigSave(disk, projects'[slug]) ELSE disk

\* the write-lock block that ends both procedures: update updated_at and save,
\* only when the record is still in the map; a failed save is ignored
TouchRecord(slug, io_ok) ==
    IF slug \in DOMAIN projects
    THEN /\ projects' = [projects EXCEPT ![slug].updated_at = clock]
         /\ disk' = IF io_ok THEN ProjectConfigSave(disk, projects'[slug]) ELSE disk
    ELSE UNCHANGED <<projects, disk>>

\* ---------------------------------------------- scheduler::execute_deploy
\* utils::git_clone: fails when the destination exists or the clone fails
DeployClone(t) ==
    /\ tasks[t].kind = "Deploy" /\ tasks[t].pc = "clone"
    /\ \E git_ok \in BOOLEAN :
        LET res == IF tasks[t].slug \in repo THEN "git_dest_exists"
                   ELSE IF ~git_ok THEN "git_failed" ELSE "ok"
        IN  /\ repo' = IF res = "ok" THEN repo \cup {tasks[t].slug} ELSE repo
            /\ tasks' = Advance(t, res, "build")
    /\ UNCHANGED <<projects, disk, queue, building, spawned, calls,
                   containers, images, clock>>

\* build::find_dockerfile and build::build_image to "<image_name>:latest"
DeployBuild(t) ==
    /\ tasks[t].kind = "Deploy" /\ tasks[t].pc = "build"
    /\ \E outcome \in {"ok", "no_dockerfile", "build_failed"} :
        LET res == IF tasks[t].slug \notin repo THEN "no_dockerfile" ELSE outcome
        IN  /\ images' = IF res = "ok"
                         THEN Put(images, LatestTag(tasks[t].snap.image_name), t)
                         ELSE images
            /\ tasks' = Advance(t, res, "run")
    /\ clock' = clock + 1
    /\ UNCHANGED <<projects, disk, repo, queue, building, spawned, calls, containers>>

\* create_and_start_container(container_name, tag, host_port, ...)
DeployRun(t) ==
    /\ tasks[t].kind = "Deploy" /\ tasks[t].pc = "run"
    /\ \E engine \in EngineChoices :
        LET r == CreateAndStart(containers, images, tasks[t].snap.container_name,
                     LatestTag(tasks[t].snap.image_name), tasks[t].snap.host_port, engine)
        IN  /\ containers' = r.cs
            /\ tasks' = Advance(t, r.res, "finish")
    /\ UNCHANGED <<projects, disk, repo, queue, building, spawned, calls,
                   images, clock>>

DeployFinish(t) ==
    /\ tasks[t].kind = "Deploy" /\ tasks[t].pc = "finish"
    /\ \E io_ok \in BOOLEAN : TouchRecord(tasks[t].slug, io_ok)
    /\ tasks' = [tasks EXCEPT ![t].pc = "release", ![t].res = "ok"]
    /\ UNCHANGED <<repo, queue, building, spawned, calls, containers, images, clock>>

\* --------------------------------------------- scheduler::execute_rebuild
\* history: every Rebuild job of the slug accepted so far has now seen a
\* rebuild procedure begin after its enqueue
MarkServedQueue(slug) ==
    [i \in DOMAIN queue |->
        IF queue[i].slug = slug THEN [queue[i] EXCEPT !.served = TRUE] ELSE queue[i]]

MarkServedTasks(ts, slug) ==
    [u \in TaskIds |->
        IF ts[u].slug = slug /\ ts[u].pc # "done" THEN [ts[u] EXCEPT !.served = TRUE]
        ELSE ts[u]]

\* utils::git_pull in the working tree: fails when the tree does not exist
RebuildPull(t) ==
    /\ tasks[t].kind = "Rebuild" /\ tasks[t].pc = "pull"
    /\ \E git_ok \in BOOLEAN :
        LET res == IF tasks[t].slug \notin repo THEN "git_no_repo"
                   ELSE IF ~git_ok THEN "git_failed" ELSE "ok"
        IN  tasks' = MarkServedTasks(Advance(t, res, "build"), tasks[t].slug)
    /\ queue' = MarkServedQueue(tasks[t].slug)
    /\ UNCHANGED <<projects, disk, repo, building, spawned, calls,
                   containers, images, clock>>

\* new_tag = "<image_name>:build-<timestamp>", find_dockerfile, build_image
RebuildBuild(t) ==
    /\ tasks[t].kind = "Rebuild" /\ tasks[t].pc = "build"
    /\ clock' = clock + 1
    /\ \E outcome \in {"ok", "no_dockerfile", "build_failed"} :
        LET res == IF tasks[t].slug \notin repo THEN "no_dockerfile" ELSE outcome
        IN  /\ images' = IF res = "ok"
                         THEN Put(images, BuildTag(tasks[t].snap.image_name, clock), t)
                         ELSE images
            /\ tasks' = [Advance(t, res, "port") EXCEPT ![t].stamp = clock]
    /\ UNCHANGED <<projects, disk, repo, queue, building, spawned, calls, containers>>

NewTag(t) == BuildTag(tasks[t].snap.image_name, tasks[t].stamp)

\* temp_port = find_available_port()?
RebuildPort(t) ==
    /\ tasks[t].kind = "Rebuild" /\ tasks[t].pc = "port"
    /\ IF FreePorts = {}
       THEN tasks' = Advance(t, "no_ports", "")
       ELSE \E p \in FreePorts :
                tasks' = [tasks EXCEPT ![t].pc = "run", ![t].temp_port = p]
    /\ UNCHANGED <<projects, disk, repo, queue, building, spawned, calls,
                   containers, images, clock>>

AfterTransientStartSwitches == "stop_old"

\* the step after the transient container was started: the stabilization wait
\* and the running check
AfterTransientStart == "check"

\* create_and_start_container("<container_name>-new", new_tag, temp_port, ...)
RebuildRun(t) ==
    /\ tasks[t].kind = "Rebuild" /\ tasks[t].pc = "run"
    /\ \E engine \in EngineChoices :
        LET r == CreateAndStart(containers, images, TempName(tasks[t].snap.container_name),
                     NewTag(t), tasks[t].temp_port, engine)
        IN  /\ containers' = r.cs
            /\ tasks' = Advance(t, r.res, AfterTransientStart)
    /\ UNCHANGED <<projects, disk, repo, queue, building, spawned, calls,
                   images, clock>>

AfterNotRunningSwitches == "stop_old"

\* the step taken when is_container_running answered Ok(false)
AfterNotRunning == "cleanup_container"

\* sleep(3 s); is_container_running(temp)? : a failed query returns the error
RebuildCheck(t) ==
    /\ tasks[t].kind = "Rebuild" /\ tasks[t].pc = "check"
    /\ \E query_ok \in BOOLEAN :
        IF ~query_ok THEN tasks' = Advance(t, "engine_error", "")
        ELSE IF Running(containers, TempName(tasks[t].snap.container_name))
        THEN tasks' = [tasks EXCEPT ![t].pc = "stop_old"]
        ELSE tasks' = [tasks EXCEPT ![t].pc = AfterNotRunning,
                          ![t].res = "New container failed to start"]
    /\ UNCHANGED <<projects, disk, repo, queue, building, spawned, calls,
                   containers, images, clock>>

\* let _ = remove_container(&temp_container)
RebuildCleanupContainer(t) ==
    /\ tasks[t].kind = "Rebuild" /\ tasks[t].pc = "cleanup_container"
    /\ containers' = RemoveContainer(containers, TempName(tasks[t].snap.container_name))
    /\ tasks' = [tasks EXCEPT ![t].pc = "cleanup_image"]
    /\ UNCHANGED <<projects, disk, repo, queue, building, spawned, calls,
                   images, clock>>

\* let _ = remove_image(&new_tag); return Err("New container failed to start")
RebuildCleanupImage(t) ==
    /\ tasks[t].kind = "Rebuild" /\ tasks[t].pc = "cleanup_image"
    /\ images' = RemoveImage(images, NewTag(t))
    /\ tasks' = [tasks EXCEPT ![t].pc = "release"]
    /\ UNCHANGED <<projects, disk, repo, queue, building, spawned, calls,
                   containers, clock>>

\* let _ = stop_container(&container_name)
RebuildStopOld(t) ==
    /\ tasks[t].kind = "Rebuild" /\ tasks[t].pc = "stop_old"
    /\ containers' = StopContainer(containers, tasks[t].snap.container_name)
    /\ tasks' = [tasks EXCEPT ![t].pc = "remove_old"]
    /\ UNCHANGED <<projects, disk, repo, queue, building, spawned, calls,
                   images, clock>>

\* let _ = remove_container(&container_name)
RebuildRemoveOld(t) ==
    /\ tasks[t].kind = "Rebuild" /\ tasks[t].pc = "remove_old"
    /\ containers' = RemoveContainer(containers, tasks[t].snap.container_name)
    /\ tasks' = [tasks EXCEPT ![t].pc = "rename"]
    /\ UNCHANGED <<projects, disk, repo, queue, building, spawned, calls,
                   images, clock>>

\* rename_container(temp, container_name)? : fails when the transient container
\* is gone or the canonical name is taken
RebuildRename(t) ==
    /\ tasks[t].kind = "Rebuild" /\ tasks[t].pc = "rename"
    /\ \E engine_ok \in BOOLEAN :
        LET temp == TempName(tasks[t].snap.container_name)
            name == tasks[t].snap.container_name
            res == IF temp \notin DOMAIN containers THEN "no_such_container"
                   ELSE IF name \in DOMAIN containers THEN "name_conflict"
                   ELSE IF ~engine_ok THEN "rename_failed" ELSE "ok"
        IN  /\ containers' = IF res = "ok"
                             THEN Put(Del(containers, temp), name, containers[temp])
                             ELSE containers
            /\ tasks' = Advance(t, res, "tag")
    /\ UNCHANGED <<projects, disk, repo, queue, building, spawned, calls,
                   images, clock>>

\* tag_image(new_tag, repo = image_name, tag = "latest")?
RebuildTag(t) ==
    /\ tasks[t].kind = "Rebuild" /\ tasks[t].pc = "tag"
    /\ \E engine_ok \in BOOLEAN :
        LET res == IF NewTag(t) \notin DOMAIN images THEN "no_such_image"
                   ELSE IF ~engine_ok THEN "tag_failed" ELSE "ok"
        IN  /\ images' = IF res = "ok"
                         THEN Put(images, LatestTag(tasks[t].snap.image_name),
                                  images[NewTag(t)])
                         ELSE images
            /\ tasks' = Advance(t, res, "untag")
    /\ UNCHANGED <<projects, disk, repo, queue, building, spawned, calls,
                   containers, clock>>

\* let _ = remove_image(&new_tag)
RebuildUntag(t) ==
    /\ tasks[t].kind = "Rebuild" /\ tasks[t].pc = "untag"
    /\ images' = RemoveImage(images, NewTag(t))
    /\ tasks' = [tasks EXCEPT ![t].pc = "finish"]
    /\ UNCHANGED <<projects, disk, repo, queue, building, spawned, calls,
                   containers, clock>>

RebuildFinish(t) ==
    /\ tasks[t].kind = "Rebuild" /\ tasks[t].pc = "finish"
    /\ \E io_ok \in BOOLEAN : TouchRecord(tasks[t].slug, io_ok)
    /\ tasks' = [tasks EXCEPT ![t].pc = "release", ![t].res = "ok"]
    /\ UNCHANGED <<repo, queue, building, spawned, calls, containers, images, clock>>

\* ------------------------------------------------ webhook::handle_webhook
\* A body is a byte string.  A well-formed push event is modelled by a body of
\* two bytes, the first encoding the "ref" field and the second the "after"
\* field; any other length fails to parse.
Bytes == 0..MaxByte
Bodies == UNION {[1..n -> Bytes] : n \in 0..2}
Secrets == {<<0>>, <<1>>}
Branches == {<<"main">>, <<"dev">>}

\* the "ref" strings a body can carry, as sequences of path tokens
RefOf(b) ==
    IF b = 0 THEN <<"refs", "/", "heads", "/", "main">>
    ELSE IF b = 1 THEN <<"refs", "/", "heads", "/", "dev">>
    ELSE IF b = 2 THEN <<"refs", "/", "tags", "/", "main">>
    ELSE <<"main">>

\* serde_json::from_slice::<GitHubPushEvent>(&body)
ParsePushEvent(body) ==
    IF Len(body) = 2
    THEN [ok |-> TRUE, git_ref |-> RefOf(body[1]), after |-> ToString(body[2])]
    ELSE [ok |-> FALSE, git_ref |-> <<>>, after |-> ""]

StripPrefixLoose(str, prefix) ==
    IF str = <<>> THEN [some |-> FALSE, rest |-> str]
    ELSE [some |-> TRUE, rest |-> <<str[Len(str)]>>]

\* str::strip_prefix: Some(rest) when str starts with prefix, None otherwise
StripPrefix(str, prefix) ==
    IF Len(str) >= Len(prefix) /\ SubSeq(str, 1, Len(prefix)) = prefix
    THEN [some |-> TRUE, rest |-> SubSeq(str, Len(prefix) + 1, Len(str))]
    ELSE [some |-> FALSE, rest |-> str]

\* GitHubPushEvent::branch
Branch(git_ref) == StripPrefix(git_ref, <<"refs", "/", "heads", "/">>)

\* a byte string as a number: distinct strings have distinct numbers
RECURSIVE Code(_)
Code(str) ==
    IF str = <<>> THEN 0
    ELSE Code(SubSeq(str, 1, Len(str) - 1)) * (MaxByte + 2) + str[Len(str)] + 1

\* HmacSha256::new_from_slice(key); update(msg); finalize(): a tag of DigestLen
\* bytes.  The tag function is collision-free on the keys and bodies of the
\* model: distinct (key, body) pairs have distinct tags.
HmacSha256(key, msg) ==
    (Code(key) * ((MaxByte + 2) ^ 3) + Code(msg)) % (256 ^ DigestLen)

HexDigits == <<"0", "1", "2", "3", "4", "5", "6", "7", "8", "9",
               "a", "b", "c", "d", "e", "f">>

\* hex::encode of a tag: two lower-case digits per byte
HexEncode(tag) ==
    [i \in 1..(2 * DigestLen) |-> HexDigits[((tag \div (16 ^ (2 * DigestLen - i))) % 16) + 1]]

SigPrefix == <<"s", "h", "a", "2", "5", "6", "=">>
NonAscii == "non-ascii"

\* HeaderValue::to_str().unwrap_or(""): a value with a non-ASCII byte reads ""
ToStr(header) == IF \E i \in DOMAIN header : header[i] = NonAscii THEN <<>> ELSE header

ConstantTimeEqAnyByte(a, b) ==
    Len(a) = Len(b) /\ \E i \in DOMAIN a : a[i] = b[i]

\* constant_time_eq: equal lengths and no position where the bytes differ
ConstantTimeEq(a, b) ==
    IF Len(a) # Len(b) THEN FALSE
    ELSE \A i \in DOMAIN a : a[i] = b[i]

MissingHeaderRejects == "401"

\* the else branch of `if let Some(signature_header)`: warn and go on
MissingHeaderVerdict == "pass"

\* the signature step: "pass" or the status it returns (new_from_slice takes a
\* key of any length, so the HMAC-error answer cannot happen)
VerifySignature(webhook_secret, header, body) ==
    IF header = NoHeader THEN MissingHeaderVerdict
    ELSE LET signature == ToStr(header)
             stripped == StripPrefix(signature, SigPrefix)
             expected_signature == IF stripped.some THEN stripped.rest ELSE signature
             computed == HexEncode(HmacSha256(webhook_secret, body))
         IN  IF ConstantTimeEq(computed, expected_signature) THEN "pass" ELSE "401"

EnqueueDropped(q, job) == q

\* scheduler_tx.send(job).await once the channel has room
Enqueue(q, job) == Append(q, job)

\* the deliveries the model sends -------------------------------------------
\* str with one position changed to one of chars
Alter(str, chars) ==
    {[str EXCEPT ![i] = ch] : i \in DOMAIN str, ch \in chars} \ {str}

\* the x-hub-signature-256 value a sender holding key computes for body
Sign(key, body) == SigPrefix \o HexEncode(HmacSha256(key, body))

AlterChars == {"0", "g", NonAscii}

\* header values tried with a body: none, the signature under each key with
\* and without its prefix, each single-byte change of such a signature, and
\* the signature of each body that differs from this one in a single byte
Headers(body) ==
    {NoHeader}
    \cup UNION {{Sign(k, body), HexEncode(HmacSha256(k, body))} : k \in Secrets}
    \cup UNION {Alter(Sign(k, body), AlterChars) : k \in Secrets}
    \cup {Sign(k, b) : k \in Secrets, b \in Alter(body, Bytes)}

HookIds == {1}

HandleWebhookParsesFirst(c) ==
    /\ NextCall(c)
    /\ \E slug \in Slugs : \E body \in Bodies : \E header \in Headers(body) :
        LET config == Get(projects, slug)
            hook == [IdleCall EXCEPT !.op = "webhook", !.slug = slug, !.cfg = config,
                                     !.req = [header |-> header, body |-> body]]
            event == ParsePushEvent(body)
            branch == Branch(event.git_ref)
        IN  calls' = [calls EXCEPT ![c] =
                IF config = NoConfig
                THEN [hook EXCEPT !.pc = "done", !.res = "404"]
                ELSE IF ~event.ok
                THEN [hook EXCEPT !.pc = "done", !.res = "400"]
                ELSE IF VerifySignature(config.secret, header, body) # "pass"
                THEN [hook EXCEPT !.pc = "done", !.res = "401"]
                ELSE IF branch.some /\ branch.rest = config.branch
                THEN [hook EXCEPT !.pc = "send"]
                ELSE [hook EXCEPT !.pc = "done", !.res = "200"]]
    /\ UNCHANGED <<projects, disk, repo, queue, building, tasks, spawned,
                   containers, images, clock>>

\* handle_webhook up to its send: lookup under the read lock, signature step,
\* parse, branch test
HandleWebhook(c) ==
    /\ NextCall(c)
    /\ \E slug \in Slugs : \E body \in Bodies : \E header \in Headers(body) :
        LET config == Get(projects, slug)
            hook == [IdleCall EXCEPT !.op = "webhook", !.slug = slug, !.cfg = config,
                                     !.req = [header |-> header, body |-> body]]
            event == ParsePushEvent(body)
            branch == Branch(event.git_ref)
        IN  calls' = [calls EXCEPT ![c] =
                IF config = NoConfig
                THEN [hook EXCEPT !.pc = "done", !.res = "404"]
                ELSE IF VerifySignature(config.secret, header, body) # "pass"
                THEN [hook EXCEPT !.pc = "done", !.res = "401"]
                ELSE IF ~event.ok
                THEN [hook EXCEPT !.pc = "done", !.res = "400"]
                ELSE IF branch.some /\ branch.rest = config.branch
                THEN [hook EXCEPT !.pc = "send"]
                ELSE [hook EXCEPT !.pc = "done", !.res = "200"]]
    /\ UNCHANGED <<projects, disk, repo, queue, building, tasks, spawned,
                   containers, images, clock>>

\* let _ = scheduler_tx.send(Job::Rebuild { slug, commit_sha: Some(after) }).await;
\* return Ok(StatusCode::OK)
WebhookSend(c) ==
    /\ calls[c].op = "webhook" /\ calls[c].pc = "send"
    /\ Len(queue) < QueueCap
    /\ queue' = Enqueue(queue, RebuildJobAt(calls[c].slug,
                                           ParsePushEvent(calls[c].req.body).after))
    /\ calls' = Return(c, "200")
    /\ UNCHANGED <<projects, disk, repo, building, tasks, spawned,
                   containers, images, clock>>

\* A daemon restarted with the record of slug "a" on disk and its container
\* running: the bootstrap loads the record and queues nothing.  The queue is
\* empty or holds a rebuild of the slug that the consumer has not taken yet.
WebhookInit ==
    /\ \E k \in Secrets : \E b \in Branches : \E p \in Ports :
        LET config == [ProjectConfigNew("a", p, 1) EXCEPT !.secret = k, !.branch = b]
        IN  /\ projects = Put(<<>>, "a", config)
            /\ disk = Put(<<>>, "a", config)
            /\ containers = Put(<<>>, config.container_name,
                                [state |-> "running", image |-> 1, port |-> p])
            /\ images = Put(<<>>, LatestTag(config.image_name), 1)
    /\ repo = {"a"}
    /\ queue \in {<<>>, <<Job("Rebuild", "a")>>}
    /\ building = {}
    /\ tasks = [t \in TaskIds |-> IdleTask]
    /\ spawned = 0
    /\ calls = [c \in CallIds |-> IdleCall]
    /\ clock = 2

WebhookNext == \E c \in HookIds : HandleWebhook(c) \/ WebhookSend(c)

\* one webhook delivery to a running daemon
WebhookSpec == WebhookInit /\ [][WebhookNext]_vars

\* ------------------------------------- ProjectConfig::save, step by step
\* The main specification takes a save as one step, because nothing there reads
\* the disk.  std::fs::write is File::create, which truncates the file, followed
\* by write_all; the steps below keep the two apart.
EmptyFile == NoConfig

\* File::create(path): the file exists and is empty
FsCreate(d, slug) == Put(d, slug, EmptyFile)

\* write_all(content)
FsWriteAll(d, cfg) == Put(d, cfg.slug, cfg)

\* ProjectConfig::load: read_to_string and toml::from_str
ProjectConfigLoad(d, slug) ==
    IF slug \notin DOMAIN d THEN [ok |-> FALSE, config |-> NoConfig]
    ELSE IF d[slug] = EmptyFile THEN [ok |-> FALSE, config |-> NoConfig]
    ELSE [ok |-> TRUE, config |-> d[slug]]

\* ProjectConfig::load_all: a record that fails to load is skipped with a warning
LoadAll(d) ==
    [s \in {x \in DOMAIN d : ProjectConfigLoad(d, x).ok} |-> ProjectConfigLoad(d, s).config]

\* the closing block of a procedure: take the write lock, set updated_at
FinishTouch(t) ==
    /\ IsBuild(t) /\ tasks[t].pc = "finish"
    /\ IF tasks[t].slug \in DOMAIN projects
       THEN /\ projects' = [projects EXCEPT ![tasks[t].slug].updated_at = clock]
            /\ tasks' = [tasks EXCEPT ![t].pc = "save_create", ![t].res = "ok"]
       ELSE /\ projects' = projects
            /\ tasks' = [tasks EXCEPT ![t].pc = "release", ![t].res = "ok"]
    /\ UNCHANGED <<disk, repo, queue, building, spawned, calls, containers, images, clock>>

\* let _ = config.save(): create_dir_all and File::create
FinishSaveCreate(t) ==
    /\ IsBuild(t) /\ tasks[t].pc = "save_create"
    /\ \E io_ok \in BOOLEAN :
        /\ disk' = IF io_ok THEN FsCreate(disk, tasks[t].slug) ELSE disk
        /\ tasks' = [tasks EXCEPT ![t].pc = IF io_ok THEN "save_write" ELSE "release"]
    /\ UNCHANGED <<projects, repo, queue, building, spawned, calls, containers, images, clock>>

\* let _ = config.save(): write_all, then the write lock is dropped
FinishSaveWrite(t) ==
    /\ IsBuild(t) /\ tasks[t].pc = "save_write"
    /\ \E io_ok \in BOOLEAN :
        disk' = IF io_ok THEN FsWriteAll(disk, projects[tasks[t].slug]) ELSE disk
    /\ tasks' = [tasks EXCEPT ![t].pc = "release"]
    /\ UNCHANGED <<projects, repo, queue, building, spawned, calls, containers, images, clock>>

\* the orders in which the bootstrap can meet the slugs of set
Orders(set) ==
    {q \in [1..Cardinality(set) -> set] : \A i, j \in DOMAIN q : q[i] = q[j] => i = j}

\* The daemon process is killed and started again: run() loads the records of
\* the disk into a new map, start_all_projects starts the stopped containers of
\* the enabled records and queues a Deploy for those without a container, and a
\* new scheduler starts with an empty exclusion set.
CrashRestart ==
    /\ projects' = LoadAll(disk)
    /\ LET enabled == {s \in DOMAIN projects' : projects'[s].enabled}
           state(s) == GetContainerState(containers, projects'[s].container_name)
       IN  /\ containers' =
                [n \in DOMAIN containers |->
                    IF \E s \in enabled : projects'[s].container_name = n /\ state(s) = "Stopped"
                    THEN [containers[n] EXCEPT !.state = "running"] ELSE containers[n]]
           /\ \E order \in Orders({s \in enabled : state(s) \notin {"Online", "Stopped"}}) :
                queue' = [i \in DOMAIN order |-> Job("Deploy", order[i])]
    /\ building' = {}
    /\ tasks' = [t \in TaskIds |-> IdleTask]
    /\ spawned' = 0
    /\ calls' = [c \in CallIds |-> IdleCall]
    /\ UNCHANGED <<disk, repo, images, clock>>

\* A build task of a deployed project has reached its closing block: the
\* record is in the map and on disk, the container of the project runs, the
\* task holds the slug.
SaveInit ==
    /\ \E slug \in Slugs : \E p \in Ports : \E kind \in {"Deploy", "Rebuild"} :
       \E updated \in 1..2 :
        LET config == [ProjectConfigNew(slug, p, 1) EXCEPT !.updated_at = updated]
        IN  /\ projects = Put(<<>>, slug, config)
            /\ disk = Put(<<>>, slug, config)
            /\ containers = Put(<<>>, config.container_name,
                                [state |-> "running", image |-> 1, port |-> p])
            /\ images = Put(<<>>, LatestTag(config.image_name), 1)
            /\ repo = {slug}
            /\ building = {slug}
            /\ tasks = [u \in TaskIds |->
                   IF u = 1
                   THEN [IdleTask EXCEPT !.pc = "finish", !.kind = kind, !.slug = slug,
                                         !.snap = config, !.served = TRUE]
                   ELSE IdleTask]
            /\ clock = updated + 1
    /\ spawned = 1
    /\ queue = <<>>
    /\ calls = [c \in CallIds |-> IdleCall]

SaveNext ==
    \/ \E t \in TaskIds :
          FinishTouch(t) \/ FinishSaveCreate(t) \/ FinishSaveWrite(t) \/ Release(t)
    \/ CrashRestart

\* the closing block of a build with the steps of its save kept apart, in a
\* daemon that can be killed and restarted at any point
SaveSpec == SaveInit /\ [][SaveNext]_vars

\* ------------------------------------------------------- utils::slugify
\* Characters are written as strings; a code point outside ASCII is written
\* by its number: U+00C9 is the capital E with acute, U+00E9 its lower case,
\* U+0130 the capital I with dot above, U+0307 the combining dot above.
NameChars == {"a", "B", "7", "-", "_", "U+00C9", "U+0130"}
Names == UNION {[1..n -> NameChars] : n \in 0..MaxNameLen}

\* str::to_lowercase, one character at a time: the Unicode lower-case mapping,
\* which may give more than one character
ToLowercase(c) ==
    CASE c = "B" -> <<"b">>
      [] c = "U+00C9" -> <<"U+00E9">>
      [] c = "U+0130" -> <<"i", "U+0307">>
      [] OTHER -> <<c>>

RECURSIVE Lowered(_)
Lowered(str) ==
    IF str = <<>> THEN <<>> ELSE ToLowercase(Head(str)) \o Lowered(Tail(str))

\* char::is_alphanumeric : the Unicode properties Alphabetic and Numeric
IsAlphanumeric(c) == c \in {"a", "b", "i", "B", "7", "U+00C9", "U+00E9", "U+0130"}

\* .map(|c| if c.is_alphanumeric() || c == '-' { c } else { '-' })
MapChar(c) == IF IsAlphanumeric(c) \/ c = "-" THEN c ELSE "-"

RECURSIVE TrimStart(_, _)
TrimStart(str, ch) ==
    IF str # <<>> /\ Head(str) = ch THEN TrimStart(Tail(str), ch) ELSE str

RECURSIVE TrimEnd(_, _)
TrimEnd(str, ch) ==
    IF str # <<>> /\ str[Len(str)] = ch
    THEN TrimEnd(SubSeq(str, 1, Len(str) - 1), ch) ELSE str

\* str::trim_matches
TrimMatches(str, ch) == TrimEnd(TrimStart(str, ch), ch)

Slugify(name) ==
    LET lower == Lowered(name)
        mapped == [i \in 1..Len(lower) |-> MapChar(lower[i])]
    IN  TrimMatches(mapped, "-")

\* deploy_project derives the slug of a request from its project name
DeriveSlug(c) ==
    /\ calls[c].op = "deploy" /\ calls[c].pc = "name"
    /\ calls' = [calls EXCEPT ![c].slug = Slugify(calls[c].req.body),
                              ![c].pc = "check"]
    /\ UNCHANGED <<projects, disk, repo, queue, building, tasks, spawned,
                   containers, images, clock>>

\* a deploy request has arrived; its project name is any name of the model
SlugInit ==
    /\ projects = <<>> /\ disk = <<>> /\ repo = {} /\ queue = <<>>
    /\ building = {} /\ tasks = [t \in TaskIds |-> IdleTask] /\ spawned = 0
    /\ containers = <<>> /\ images = <<>> /\ clock = 1
    /\ \E name \in Names :
        calls = [c \in CallIds |->
                   IF c = 1
                   THEN [IdleCall EXCEPT !.op = "deploy", !.pc = "name",
                                         !.slug = <<>>,
                                         !.req = [header |-> NoHeader, body |-> name]]
                   ELSE IdleCall]

SlugNext == \E c \in CallIds : DeriveSlug(c)

\* the derivation of the slug of one deploy request, over the names of the model
SlugSpec == SlugInit /\ [][SlugNext]_vars

\* ------------------------------------------- deploy of a derived slug
\* .collect::<String>() : the characters of a slug as one string
RECURSIVE CollectString(_)
CollectString(str) ==
    IF str = <<>> THEN "" ELSE Head(str) \o CollectString(Tail(str))

\* config::paths::projects_dir, as path components
ProjectsDir == <<"var", "lib", "dockyard", "projects">>

\* config::paths::project_dir : PathBuf::join adds no component for ""
ProjectDir(slug) == IF slug = "" THEN ProjectsDir ELSE Append(ProjectsDir, slug)

\* deploy_project from the name of the request to the end of its read lock:
\* slugify(&name), then reject a slug that is already a key of the map
DeployProjectDerive(c) ==
    /\ calls[c].op = "deploy" /\ calls[c].pc = "name"
    /\ LET slug == CollectString(Slugify(calls[c].req.body))
       IN  IF SlugTaken(projects, slug)
           THEN calls' = [calls EXCEPT ![c].slug = slug, ![c].pc = "done",
                                       ![c].res = "ProjectAlreadyExists"]
           ELSE calls' = [calls EXCEPT ![c].slug = slug, ![c].pc = "port"]
    /\ UNCHANGED <<projects, disk, repo, queue, building, tasks, spawned,
                   containers, images, clock>>

NameNext ==
    \E c \in CallIds :
        \/ DeployProjectDerive(c)
        \/ DeployProjectPort(c)
        \/ DeployProjectSave(c)
        \/ DeployProjectSend(c)
        \/ DeployProjectInsert(c)

\* one deploy request from its project name to its response, over the names
\* of the model
NameSpec == SlugInit /\ [][NameNext]_vars

\* --------------------------------------------------- bootstrap of run()
\* One more record than the queue has room for, so that the reconcile step
\* can meet a full queue.
BootSlugs == {"s" \o ToString(i) : i \in 1..(QueueCap + 1)}

\* The records load_all found, each with any enabled flag and its container
\* absent, running, exited or created; the reconcile loop of
\* start_all_projects is about to visit them in some order of the map's
\* iteration.
BootInit ==
    /\ repo = {} /\ queue = <<>> /\ building = {} /\ spawned = 0
    /\ tasks = [t \in TaskIds |-> IdleTask] /\ images = <<>> /\ clock = 1
    /\ \E known \in SUBSET BootSlugs, flags \in [BootSlugs -> BOOLEAN],
          engine \in [BootSlugs -> {"absent", "running", "exited", "created"}] :
        /\ projects = [s \in known |->
                          [ProjectConfigNew(s, 0, 0) EXCEPT !.enabled = flags[s]]]
        /\ \A s \in BootSlugs \ known : flags[s] /\ engine[s] = "absent"
        /\ disk = projects
        /\ containers =
              [n \in {projects[s].container_name : s \in {x \in known : engine[x] # "absent"}} |->
                  [state |-> engine[CHOOSE s \in known : projects[s].container_name = n],
                   image |-> 0, port |-> 0]]
        /\ \E order \in Orders(known) :
              calls = [c \in CallIds |->
                         IF c = 1
                         THEN [IdleCall EXCEPT !.op = "bootstrap", !.pc = "reconcile",
                                               !.req = [header |-> NoHeader, body |-> order]]
                         ELSE IdleCall]

\* the loop of start_all_projects has a record left whose container is
\* neither Online nor Stopped, so its next step is the send of a Deploy job
BootAtSend(c) ==
    /\ calls[c].op = "bootstrap" /\ calls[c].pc = "reconcile"
    /\ calls[c].req.body # <<>>
    /\ LET cfg == projects[Head(calls[c].req.body)]
       IN  /\ cfg.enabled
           /\ GetContainerState(containers, cfg.container_name) \notin {"Online", "Stopped"}

\* scheduler_tx.send(..).await completes only when the channel has room
BootCanSend(c) == Len(queue) < QueueCap

\* one iteration of the loop of start_all_projects; an error of the state
\* query or of the start ends run() with the error
BootReconcile(c) ==
    /\ calls[c].op = "bootstrap" /\ calls[c].pc = "reconcile"
    /\ calls[c].req.body # <<>>
    /\ LET slug == Head(calls[c].req.body)
           cfg == projects[slug]
           visited == [calls EXCEPT ![c].req.body = Tail(calls[c].req.body)]
           state == GetContainerState(containers, cfg.container_name)
       IN  IF ~cfg.enabled
           THEN calls' = visited /\ UNCHANGED <<containers, queue>>
           ELSE \E query_ok \in BOOLEAN :
               IF ~query_ok
               THEN calls' = Return(c, "Docker") /\ UNCHANGED <<containers, queue>>
               ELSE IF state = "Online"
               THEN calls' = visited /\ UNCHANGED <<containers, queue>>
               ELSE IF state = "Stopped"
               THEN \E engine \in {"ok", "start_fails"} :
                       IF engine = "ok"
                       THEN /\ containers' = [containers EXCEPT ![cfg.container_name].state = "running"]
                            /\ calls' = visited /\ UNCHANGED queue
                       ELSE /\ calls' = Return(c, "Docker")
                            /\ UNCHANGED <<containers, queue>>
               ELSE /\ BootCanSend(c)
                    /\ queue' = Append(queue, Job("Deploy", slug))
                    /\ calls' = visited /\ UNCHANGED containers
    /\ UNCHANGED <<projects, disk, repo, building, tasks, spawned, images, clock>>

\* the loop is over: write the PID file and spawn the scheduler consumer
BootSpawn(c) ==
    /\ calls[c].op = "bootstrap" /\ calls[c].pc = "reconcile"
    /\ calls[c].req.body = <<>>
    /\ calls' = [calls EXCEPT ![c].pc = "running"]
    /\ UNCHANGED <<projects, disk, repo, queue, building, tasks, spawned,
                   containers, images, clock>>

\* the consumer exists only once run() has spawned it
BootDispatch == (\E c \in CallIds : calls[c].pc = "running") /\ Dispatch

BootNext ==
    \/ \E c \in CallIds : BootReconcile(c) \/ BootSpawn(c)
    \/ BootDispatch

\* run() from the loaded records to the running scheduler consumer
BootSpec == BootInit /\ [][BootNext]_vars

\* ------------------------------------------------------------ environment
\* the process of a running container ends
ContainerExit(n) ==
    /\ Running(containers, n)
    /\ containers' = [containers EXCEPT ![n].state = "exited"]
    /\ UNCHANGED <<projects, disk, repo, queue, building, tasks, spawned, calls,
                   images, clock>>

\* -------------------------------------- start, stop and the health watcher
\* DaemonState::stop_project, under the read lock: stop the container of the
\* record.  The engine refuses an absent container; for one that is not
\* running its answer (not modified) may or may not surface as an error.
StopProject(c) ==
    /\ NextCall(c)
    /\ \E slug \in Slugs :
        LET cfg == Get(projects, slug)
            done(res) == [calls EXCEPT ![c] =
                [IdleCall EXCEPT !.op = "stop", !.slug = slug, !.pc = "done", !.res = res]]
        IN  IF cfg = NoConfig
            THEN calls' = done("ProjectNotFound") /\ UNCHANGED containers
            ELSE IF Running(containers, cfg.container_name)
            THEN /\ containers' = StopContainer(containers, cfg.container_name)
                 /\ calls' = done("ok")
            ELSE /\ UNCHANGED containers
                 /\ \E res \in IF cfg.container_name \in DOMAIN containers
                                THEN {"ok", "Docker"} ELSE {"Docker"} :
                        calls' = done(res)
    /\ UNCHANGED <<projects, disk, repo, queue, building, tasks, spawned, images, clock>>

\* the engine's start of an existing container: refused while another
\* running container binds its host port, and the engine may fail
StartContainer(cs, name, engine) ==
    IF name \notin DOMAIN cs \/ engine = "start_fails" THEN cs
    ELSE IF cs[name].port \in {cs[n].port : n \in {m \in DOMAIN cs \ {name} : cs[m].state = "running"}}
    THEN cs
    ELSE [cs EXCEPT ![name].state = "running"]

\* DaemonState::start_project, under the read lock
StartProject(c) ==
    /\ NextCall(c)
    /\ \E slug \in Slugs, engine \in {"ok", "start_fails"} :
        LET cfg == Get(projects, slug)
            done(res) == [calls EXCEPT ![c] =
                [IdleCall EXCEPT !.op = "start", !.slug = slug, !.pc = "done", !.res = res]]
        IN  IF cfg = NoConfig
            THEN calls' = done("ProjectNotFound") /\ UNCHANGED containers
            ELSE /\ containers' = StartContainer(containers, cfg.container_name, engine)
                 /\ calls' = done(IF Running(containers', cfg.container_name)
                                  THEN "ok" ELSE "Docker")
    /\ UNCHANGED <<projects, disk, repo, queue, building, tasks, spawned, images, clock>>

WatcherVisitAnyRecord(slug) ==
    /\ slug \in DOMAIN projects
    /\ GetContainerState(containers, projects[slug].container_name) = "Stopped"
    /\ \E engine \in {"ok", "start_fails"} :
          containers' = StartContainer(containers, projects[slug].container_name, engine)
    /\ UNCHANGED <<projects, disk, repo, queue, building, tasks, spawned, calls,
                   images, clock>>

\* watcher::run, one record of one round: an enabled record whose container
\* is Stopped has its container started; a failure is logged
WatcherVisit(slug) ==
    /\ slug \in DOMAIN projects
    /\ projects[slug].enabled
    /\ GetContainerState(containers, projects[slug].container_name) = "Stopped"
    /\ \E engine \in {"ok", "start_fails"} :
          containers' = StartContainer(containers, projects[slug].container_name, engine)
    /\ UNCHANGED <<projects, disk, repo, queue, building, tasks, spawned, calls,
                   images, clock>>

\* the daemon runs with the records of both slugs, each enabled or not and
\* with its container running or stopped
WatchInit ==
    /\ repo = Slugs /\ queue = <<>> /\ building = {} /\ spawned = 0
    /\ tasks = [t \in TaskIds |-> IdleTask] /\ clock = 2
    /\ calls = [c \in CallIds |-> IdleCall]
    /\ \E flags \in [Slugs -> BOOLEAN], engine \in [Slugs -> {"running", "exited"}],
          port \in [Slugs -> Ports] :
        /\ \A s, r \in Slugs : port[s] = port[r] => s = r
        /\ projects = [s \in Slugs |->
                          [ProjectConfigNew(s, port[s], 1) EXCEPT !.enabled = flags[s]]]
        /\ disk = projects
        /\ images = [g \in {LatestTag(projects[s].image_name) : s \in Slugs} |-> 1]
        /\ containers =
              [n \in {projects[s].container_name : s \in Slugs} |->
                  LET s == CHOOSE x \in Slugs : projects[x].container_name = n
                  IN  [state |-> engine[s], image |-> 1, port |-> port[s]]]

WatchNext ==
    \/ \E c \in CallIds :
          \/ StopProject(c) \/ StartProject(c)
          \/ RebuildProjectCheck(c) \/ RebuildProjectSend(c)
    \/ \E s \in Slugs : WatcherVisit(s)
    \/ \E n \in DOMAIN containers : ContainerExit(n)

\* the operator's start, stop and rebuild requests against the watcher
WatchSpec == WatchInit /\ [][WatchNext]_vars

\* ------------------------------- the switch-over of a rebuild and the watcher
\* A rebuild of project "a" has built its new image and is about to allocate
\* the temporary port; the container of the last deploy runs or has exited.
\* A round of the watcher is a query followed by a start; a start that comes
\* after the state has changed is a start of a running or absent container,
\* which changes nothing, so WatcherVisit covers every such round.
SwitchInit ==
    /\ repo = {"a"} /\ queue = <<>> /\ building = {"a"} /\ spawned = 1
    /\ clock = 3
    /\ calls = [c \in CallIds |-> IdleCall]
    /\ \E flag \in BOOLEAN, engine \in {"running", "exited"}, port \in Ports :
        LET cfg == [ProjectConfigNew("a", port, 1) EXCEPT !.enabled = flag]
        IN  /\ projects = [s \in {"a"} |-> cfg]
            /\ disk = projects
            /\ images = [g \in {LatestTag(cfg.image_name), BuildTag(cfg.image_name, 2)} |->
                            IF g = LatestTag(cfg.image_name) THEN 0 ELSE 1]
            /\ containers = [n \in {cfg.container_name} |->
                                [state |-> engine, image |-> 0, port |-> port]]
            /\ tasks = [t \in TaskIds |->
                          IF t = 1
                          THEN [IdleTask EXCEPT !.pc = "port", !.kind = "Rebuild",
                                                !.slug = "a", !.snap = cfg, !.stamp = 2]
                          ELSE IdleTask]

SwitchNext ==
    \/ \E t \in TaskIds :
          \/ RebuildPort(t) \/ RebuildRun(t) \/ RebuildCheck(t)
          \/ RebuildCleanupContainer(t) \/ RebuildCleanupImage(t)
          \/ RebuildStopOld(t) \/ RebuildRemoveOld(t) \/ RebuildRename(t)
          \/ RebuildTag(t) \/ RebuildUntag(t) \/ RebuildFinish(t) \/ Release(t)
    \/ \E s \in Slugs : WatcherVisit(s)
    \/ \E n \in DOMAIN containers : ContainerExit(n)

\* the blue-green steps of one rebuild against the rounds of the watcher
SwitchSpec == SwitchInit /\ [][SwitchNext]_vars

\* ------------------------------------------------------------------ Next
ApiStep ==
    \E c \in CallIds :
        \/ DeployProjectCheck(c) \/ DeployProjectPort(c) \/ DeployProjectSave(c) \/ DeployProjectSend(c)
        \/ DeployProjectInsert(c)
        \/ RebuildProjectCheck(c) \/ RebuildProjectSend(c)
        \/ DeleteProjectSnapshot(c) \/ DeleteProjectStop(c) \/ DeleteProjectRemove(c)
        \/ DeleteProjectRemoveImage(c) \/ DeleteProjectUnmap(c) \/ DeleteProjectDisk(c)

TaskStep ==
    \E t \in TaskIds :
        \/ Acquire(t) \/ Snapshot(t) \/ Release(t)
        \/ DeployClone(t) \/ DeployBuild(t) \/ DeployRun(t) \/ DeployFinish(t)
        \/ RebuildPull(t) \/ RebuildBuild(t) \/ RebuildPort(t) \/ RebuildRun(t)
        \/ RebuildCheck(t) \/ RebuildCleanupContainer(t) \/ RebuildCleanupImage(t)
        \/ RebuildStopOld(t) \/ RebuildRemoveOld(t) \/ RebuildRename(t)
        \/ RebuildTag(t) \/ RebuildUntag(t) \/ RebuildFinish(t)

Next ==
    \/ ApiStep
    \/ Dispatch
    \/ TaskStep
    \/ \E n \in DOMAIN containers : ContainerExit(n)

Spec == Init /\ [][Next]_vars

\* ------------------------------------------- the Stop and Delete jobs
\* Job::Stop : the task calls stop_project and logs its error
StopJob(t) ==
    /\ tasks[t].pc = "start" /\ tasks[t].kind = "Stop"
    /\ LET cfg == Get(projects, tasks[t].slug)
           done(res) == [tasks EXCEPT ![t].pc = "done", ![t].res = res]
       IN  IF cfg = NoConfig
           THEN tasks' = done("ProjectNotFound") /\ UNCHANGED containers
           ELSE IF Running(containers, cfg.container_name)
           THEN /\ containers' = StopContainer(containers, cfg.container_name)
                /\ tasks' = done("ok")
           ELSE /\ UNCHANGED containers
                /\ \E res \in IF cfg.container_name \in DOMAIN containers
                               THEN {"ok", "Docker"} ELSE {"Docker"} :
                       tasks' = done(res)
    /\ UNCHANGED <<projects, disk, repo, queue, building, spawned, calls, images, clock>>

\* Job::Delete : the task calls delete_project and logs its error.  The steps
\* of delete_project are those of the delete call; none of them reads or
\* writes the exclusion set, and the task takes them here in one step.
DeleteJob(t) ==
    /\ tasks[t].pc = "start" /\ tasks[t].kind = "Delete"
    /\ LET slug == tasks[t].slug
           cfg == Get(projects, slug)
       IN  IF cfg = NoConfig
           THEN /\ tasks' = [tasks EXCEPT ![t].pc = "done", ![t].res = "ProjectNotFound"]
                /\ UNCHANGED <<projects, disk, repo, containers, images>>
           ELSE /\ containers' = RemoveContainer(StopContainer(containers, cfg.container_name),
                                                 cfg.container_name)
                /\ images' = RemoveImage(images, LatestTag(cfg.image_name))
                /\ projects' = Del(projects, slug)
                /\ disk' = IF slug \in DOMAIN disk THEN Del(disk, slug) ELSE disk
                /\ repo' = repo \ {slug}
                /\ tasks' = [tasks EXCEPT ![t].pc = "done", ![t].res = "ok"]
    /\ UNCHANGED <<queue, building, spawned, calls, clock>>

JobKinds == {"Deploy", "Rebuild", "Stop", "Delete"}

\* The consumer is running with the record of project "a" in the map and any
\* jobs for it on the channel: run() takes whatever Job the channel carries.
JobInit ==
    /\ building = {} /\ spawned = 0 /\ clock = 2
    /\ tasks = [t \in TaskIds |-> IdleTask]
    /\ calls = [c \in CallIds |-> IdleCall]
    /\ \E engine \in {"absent", "running", "exited"}, port \in Ports,
          n \in 1..QueueCap :
        LET cfg == ProjectConfigNew("a", port, 1)
        IN  /\ projects = [s \in {"a"} |-> cfg]
            /\ disk = projects
            /\ repo = IF engine = "absent" THEN {} ELSE {"a"}
            /\ images = IF engine = "absent" THEN <<>>
                        ELSE [g \in {LatestTag(cfg.image_name)} |-> 0]
            /\ containers = IF engine = "absent" THEN <<>>
                            ELSE [m \in {cfg.container_name} |->
                                    [state |-> engine, image |-> 0, port |-> port]]
            /\ \E kinds \in [1..n -> JobKinds] :
                  queue = [i \in 1..n |-> Job(kinds[i], "a")]

JobNext ==
    \/ Dispatch
    \/ TaskStep
    \/ \E t \in TaskIds : StopJob(t) \/ DeleteJob(t)
    \/ \E n \in DOMAIN containers : ContainerExit(n)

\* the scheduler consumer and its tasks over the four kinds of job
JobSpec == JobInit /\ [][JobNext]_vars

\* ------------------------------------------------ run(): serve and shut down
\* run() after the reconcile loop: it writes the PID file, spawns the
\* consumer, the watcher and the server task, waits for the interrupt
\* signal, removes two files and returns.  run() is call 1 and the server
\* task is call 2; req.header of call 1 holds daemon.socket_path of the
\* loaded configuration and req.body the files that exist under the paths
\* below.

\* config::paths::pid_file_path
PidFilePath == "/var/run/dockyard.pid"

\* config::paths::socket_path, also the default of daemon.socket_path
SocketPath == "/var/run/dockyard.sock"

\* the values of daemon.socket_path in a configuration file
SocketPaths == {SocketPath, "/srv/dockyard/control.sock"}

ConfigSocketPath == calls[1].req.header
RunFiles == calls[1].req.body

\* The records are loaded and reconciled, and jobs for project "a" are on the
\* channel (from the reconcile loop or, once the server runs, from requests);
\* no file of an earlier run is left.
ShutInit ==
    /\ building = {} /\ spawned = 0 /\ clock = 2
    /\ tasks = [t \in TaskIds |-> IdleTask]
    /\ \E engine \in {"absent", "running"}, port \in Ports, n \in 1..QueueCap :
        LET cfg == ProjectConfigNew("a", port, 1)
        IN  /\ projects = [s \in {"a"} |-> cfg]
            /\ disk = projects
            /\ repo = IF engine = "absent" THEN {} ELSE {"a"}
            /\ images = IF engine = "absent" THEN <<>>
                        ELSE [g \in {LatestTag(cfg.image_name)} |-> 0]
            /\ containers = IF engine = "absent" THEN <<>>
                            ELSE [m \in {cfg.container_name} |->
                                    [state |-> engine, image |-> 0, port |-> port]]
            /\ \E kinds \in [1..n -> {"Deploy", "Rebuild"}] :
                  queue = [i \in 1..n |-> Job(kinds[i], "a")]
    /\ \E path \in SocketPaths :
          calls = [c \in CallIds |->
                     IF c = 1
                     THEN [IdleCall EXCEPT !.op = "run", !.pc = "write_pid",
                                           !.req = [header |-> path, body |-> {}]]
                     ELSE IdleCall]

\* std::fs::write(pid_path, pid), a failure is only logged; then the three
\* tokio::spawn calls
WritePid ==
    /\ calls[1].op = "run" /\ calls[1].pc = "write_pid"
    /\ \E written \in BOOLEAN :
          calls' = [calls EXCEPT
                      ![1].pc = "wait",
                      ![1].req.body = IF written THEN RunFiles \cup {PidFilePath}
                                      ELSE RunFiles,
                      ![2] = [IdleCall EXCEPT !.op = "server", !.pc = "bind"]]
    /\ UNCHANGED <<projects, disk, repo, queue, building, tasks, spawned,
                   containers, images, clock>>

\* server::run up to its serve loop: remove_file and UnixListener::bind on
\* the socket path of the configuration; an error of bind ends the task
ServerBind ==
    /\ calls[1].op = "run" /\ calls[1].pc = "wait"
    /\ calls[2].op = "server" /\ calls[2].pc = "bind"
    /\ \E bound \in BOOLEAN :
          calls' = [calls EXCEPT
                      ![1].req.body = IF bound THEN RunFiles \cup {ConfigSocketPath}
                                      ELSE RunFiles \ {ConfigSocketPath},
                      ![2].pc = IF bound THEN "serving" ELSE "done",
                      ![2].res = IF bound THEN "" ELSE "Io"]
    /\ UNCHANGED <<projects, disk, repo, queue, building, tasks, spawned,
                   containers, images, clock>>

\* ctrl_c() returns; remove_file(pid_path), remove_file(paths::socket_path())
\* and the return of run(), which ends the process with its tasks
Shutdown ==
    /\ calls[1].op = "run" /\ calls[1].pc = "wait"
    /\ calls' = [calls EXCEPT
                    ![1].pc = "exited", ![1].res = "ok",
                    ![1].req.body = (RunFiles \ {PidFilePath}) \ {SocketPath}]
    /\ UNCHANGED <<projects, disk, repo, queue, building, tasks, spawned,
                   containers, images, clock>>

\* the spawned consumer and its tasks run until the process ends
ShutNext ==
    \/ WritePid
    \/ ServerBind
    \/ Shutdown
    \/ calls[1].pc = "wait" /\ Dispatch
    \/ calls[1].pc = "wait" /\ TaskStep

\* the daemon between the reconcile loop and its exit
ShutSpec == ShutInit /\ [][ShutNext]_vars

\* ================================================================= claims
ProcedurePcs ==
    {"snapshot", "clone", "pull", "build", "port", "run", "check",
     "cleanup_container", "cleanup_image", "stop_old", "remove_old", "rename",
     "tag", "untag", "finish"}

\* the task is executing execute_deploy / execute_rebuild
InProcedure(t) == IsBuild(t) /\ tasks[t].pc \in ProcedurePcs

\* the task has inserted its slug and not yet removed it
Holding(t) == IsBuild(t) /\ tasks[t].pc \in ProcedurePcs \cup {"release"}

Failed(t) == tasks[t].pc = "done" /\ tasks[t].res \notin {"ok", "rejected"}

\* the task takes a step
Steps(t) == tasks'[t].pc # tasks[t].pc

\* C1: at every moment and for every slug, at most one scheduler task is
\* executing the Deploy or Rebuild procedure on that slug.
C1_OneBuildPerSlug ==
    \A s \in Slugs : Cardinality({t \in TaskIds : Holding(t) /\ tasks[t].slug = s}) <= 1

\* a job of the slug was taken up while another task was executing on it
C1_Witness ==
    \E t, u \in TaskIds :
        /\ InProcedure(t) /\ tasks[t].pc = "build"
        /\ tasks[u].slug = tasks[t].slug /\ tasks[u].res = "rejected"

\* C2: the Deploy task of a new slug always finds the record in its snapshot
\* step: no Deploy task fails with "Project not found" while the deploy call
\* that enqueued its job is still on its way to projects.insert.
C2_DeployFindsRecord ==
    \A t \in TaskIds : \A c \in CallIds :
        ~ /\ tasks[t].kind = "Deploy" /\ tasks[t].res = "not_found"
          /\ calls[c].op = "deploy" /\ calls[c].slug = tasks[t].slug
          /\ calls[c].pc = "insert"

CanonChanged(t) ==
    LET n == tasks'[t].snap.container_name
    IN  \/ (n \in DOMAIN containers) # (n \in DOMAIN containers')
        \/ n \in DOMAIN containers /\ n \in DOMAIN containers'
             /\ containers'[n] # containers[n]

\* C3: a rebuild touches the canonical container only in its switch-over steps,
\* and it enters the switch-over only from the running check, at a moment when
\* the transient container is running; a rebuild failing earlier leaves the
\* canonical container as it was.
C3_SwitchAfterRunning ==
    [][\A t \in TaskIds :
        (tasks[t].kind = "Rebuild" /\ Steps(t)) =>
            /\ tasks'[t].pc = "stop_old" =>
                 /\ tasks[t].pc = "check"
                 /\ Running(containers, TempName(tasks[t].snap.container_name))
            /\ CanonChanged(t) => tasks[t].pc \in {"stop_old", "remove_old", "rename"}
            /\ tasks[t].pc \in {"stop_old", "remove_old", "rename"} => tasks[t].res = ""]_vars

\* a rebuild has stopped the old container while the transient one runs
C3_Witness ==
    \E t \in TaskIds :
        /\ tasks[t].kind = "Rebuild" /\ tasks[t].pc = "remove_old"
        /\ tasks[t].snap.container_name \in DOMAIN containers
        /\ containers[tasks[t].snap.container_name].state = "exited"
        /\ Running(containers, TempName(tasks[t].snap.container_name))

\* C4: for every Rebuild job accepted onto the queue, a rebuild procedure of
\* its slug begins its pull step after the job was accepted: a Rebuild job is
\* never finished with without such a procedure having begun.
C4_RebuildServed ==
    \A t \in TaskIds :
        (tasks[t].kind = "Rebuild" /\ tasks[t].pc = "done") => tasks[t].served

\* C5: a slug is in the in-flight set only while the task that inserted it has
\* not finished, whether its procedure succeeded or failed.
C5_ReleasedWhenFinished ==
    \A s \in building : \E t \in TaskIds : Holding(t) /\ tasks[t].slug = s

\* a procedure failed and its slug is out of the set again
C5_Witness ==
    \E t \in TaskIds :
        /\ Failed(t) /\ tasks[t].res # "not_found"
        /\ tasks[t].slug \notin building

\* C6: a Deploy or Rebuild job taken up while its slug is in the in-flight set
\* ends at once: no step of the procedure, no change of the set, of the queue,
\* of the records or of the engine, and its task never acts again.
C6_RejectedDoesNothing ==
    [][\A t \in TaskIds :
        /\ (tasks[t].pc = "start" /\ IsBuild(t) /\ tasks[t].slug \in building /\ Steps(t)) =>
              /\ tasks'[t].pc = "done" /\ tasks'[t].res = "rejected"
              /\ UNCHANGED <<building, queue, projects, disk, repo, containers,
                             images, spawned>>
        /\ tasks[t].res = "rejected" =>
              /\ tasks'[t] = tasks[t]
              /\ tasks[t].snap = NoConfig /\ tasks[t].stamp = 0]_vars

\* two overlapping jobs of one slug have produced exactly one build
C6_Witness ==
    \E t, u \in TaskIds :
        /\ tasks[t].res = "rejected"
        /\ tasks[u].slug = tasks[t].slug /\ tasks[u].pc = "done" /\ tasks[u].res = "ok"

\* errors that only the state left behind by an earlier attempt can cause
LeftoverErrors == {"git_no_repo", "name_conflict"}

\* C7: a Rebuild that runs after a failed Deploy or Rebuild of its slug does not
\* fail because of what the failed attempt left behind.
C7_RetryAfterFailure ==
    [][\A t \in TaskIds :
        (/\ tasks[t].kind = "Rebuild" /\ Steps(t)
         /\ \E u \in TaskIds :
               /\ u # t /\ tasks[u].slug = tasks[t].slug
               /\ Failed(u) /\ tasks[u].res # "not_found")
        => tasks'[t].res \notin LeftoverErrors]_vars

\* C8: when the transient container is observed not running, the rebuild goes
\* through its clean-up only: the transient container and the transient image
\* are removed, nothing is renamed or tagged, the canonical container, the
\* "latest" tag and the record are unchanged, and the task ends with
\* "New container failed to start".
C8_NotRunningCleansUp ==
    [][\A t \in TaskIds :
        LET temp == TempName(tasks[t].snap.container_name)
            others(cs) == [n \in DOMAIN cs \ {temp} |-> cs[n]]
            otherTags(is) == [g \in DOMAIN is \ {NewTag(t)} |-> is[g]]
        IN  (tasks[t].kind = "Rebuild" /\ Steps(t)) =>
            /\ (/\ tasks[t].pc = "check" /\ tasks'[t].res # "engine_error"
                /\ ~Running(containers, temp)) =>
                  /\ tasks'[t].pc = "cleanup_container"
                  /\ tasks'[t].res = "New container failed to start"
                  /\ UNCHANGED <<containers, images, projects, disk>>
            /\ tasks[t].pc = "cleanup_container" =>
                  /\ tasks'[t].pc = "cleanup_image"
                  /\ temp \notin DOMAIN containers'
                  /\ others(containers') = others(containers)
                  /\ UNCHANGED <<images, projects, disk>>
            /\ tasks[t].pc = "cleanup_image" =>
                  /\ tasks'[t].pc = "release"
                  /\ NewTag(t) \notin DOMAIN images'
                  /\ otherTags(images') = otherTags(images)
                  /\ UNCHANGED <<containers, projects, disk>>
            /\ tasks[t].res = "New container failed to start" =>
                  /\ tasks'[t].res = tasks[t].res
                  /\ tasks'[t].pc \in {"cleanup_image", "release", "done"}]_vars

\* a rebuild ended with "New container failed to start", its transient
\* artifacts are gone and the canonical container is still there
C8_Witness ==
    \E t \in TaskIds :
        /\ tasks[t].pc = "done" /\ tasks[t].res = "New container failed to start"
        /\ TempName(tasks[t].snap.container_name) \notin DOMAIN containers
        /\ NewTag(t) \notin DOMAIN images
        /\ Running(containers, tasks[t].snap.container_name)

\* C9: a failing step of the deploy procedure ends it: the later steps do not
\* run, what the earlier steps produced stays, the record is not changed in the
\* map or on disk; the record is touched only by the step that follows a
\* successful create-and-start.
C9_DeployFailureAborts ==
    [][\A t \in TaskIds :
        (tasks[t].kind = "Deploy" /\ Steps(t)
            /\ tasks[t].pc \in {"snapshot", "clone", "build", "run"}) =>
            /\ UNCHANGED <<projects, disk>>
            /\ tasks'[t].res # "" =>
                  /\ tasks'[t].pc = "release"
                  /\ repo \subseteq repo'
                  /\ DOMAIN images \subseteq DOMAIN images'
                  /\ DOMAIN containers \subseteq DOMAIN containers'
            /\ tasks'[t].pc = "finish" =>
                  /\ tasks[t].pc = "run"
                  /\ Running(containers', tasks[t].snap.container_name)]_vars

\* a deploy failed at create-and-start: the created container is still there
\* and the record is in the map and on disk with updated_at as created
C9_Witness ==
    \E t \in TaskIds :
        /\ tasks[t].kind = "Deploy" /\ tasks[t].pc = "done"
        /\ tasks[t].res \in {"start_failed", "port_in_use"}
        /\ tasks[t].snap.container_name \in DOMAIN containers
        /\ tasks[t].slug \in DOMAIN projects /\ tasks[t].slug \in DOMAIN disk
        /\ projects[tasks[t].slug].updated_at = projects[tasks[t].slug].created_at
        /\ disk[tasks[t].slug] = projects[tasks[t].slug]

\* C10: deploy of a slug that is a key of the record map fails with
\* ProjectAlreadyExists and changes neither the map, the disk, nor the queue.
C10_ExistingSlugRejected ==
    [][\A c \in CallIds :
        /\ (NextCall(c) /\ calls'[c].op = "deploy" /\ calls'[c].slug \in DOMAIN projects) =>
              /\ calls'[c].pc = "done" /\ calls'[c].res = "ProjectAlreadyExists"
              /\ UNCHANGED <<projects, disk, repo, queue>>
        /\ calls[c].res = "ProjectAlreadyExists" => calls'[c] = calls[c]]_vars

\* a deploy was refused while the record of its slug stays in the map
C10_Witness ==
    \E c \in CallIds :
        /\ calls[c].res = "ProjectAlreadyExists"
        /\ calls[c].slug \in DOMAIN projects /\ calls[c].slug \in DOMAIN disk
        /\ calls[c].cfg = NoConfig

\* a delete of the slug has passed its lookup
DeleteBegun(slug) ==
    \E d \in CallIds :
        /\ calls[d].op = "delete" /\ calls[d].slug = slug
        /\ calls[d].res # "ProjectNotFound"

\* C11: once a deploy has returned success with slug S and host_port P, and as
\* long as no delete of S has begun, detail(S) answers with slug S and
\* host_port P.
C11_DetailAfterDeploy ==
    \A c \in CallIds :
        (/\ calls[c].op = "deploy" /\ calls[c].pc = "done" /\ calls[c].res = "ok"
         /\ ~DeleteBegun(calls[c].slug))
        => LET d == GetProjectDetail(projects, containers, calls[c].slug)
           IN  /\ d.res = "ok"
               /\ d.status.slug = calls[c].slug
               /\ d.status.host_port = calls[c].cfg.host_port

\* the slugs list_statuses answers with
Listed(map, cs) == {st.slug : st \in ListProjectStatuses(map, cs)}

\* C12: the step of delete that removes the record leaves the slug out of what
\* list_statuses answers, and from then on only the insert step of a deploy
\* call puts a slug back: no step of a Deploy or Rebuild task, in flight during
\* the delete or finishing after it, makes a slug listed again.
C12_DeletedStaysUnlisted ==
    [][/\ \A c \in CallIds :
            (calls[c].op = "delete" /\ calls[c].pc = "unmap" /\ calls'[c].pc # "unmap")
            => calls[c].slug \notin Listed(projects', containers')
       /\ \A s \in Slugs :
            (s \notin Listed(projects, containers) /\ s \in Listed(projects', containers'))
            => \E c \in CallIds :
                  /\ calls[c].op = "deploy" /\ calls[c].slug = s
                  /\ calls[c].pc = "insert" /\ calls'[c].pc = "done"]_vars

\* the delete has returned while a build task of the slug, started before it,
\* is about to run its closing write-lock block, and the slug is not listed
C12_Witness ==
    \E c \in CallIds : \E t \in TaskIds :
        /\ calls[c].op = "delete" /\ calls[c].pc = "done" /\ calls[c].res = "ok"
        /\ tasks[t].slug = calls[c].slug /\ tasks[t].pc = "finish"
        /\ calls[c].slug \notin Listed(projects, containers)

C14_FreshPortUnique ==
    [][\A c \in CallIds :
        (calls[c].op = "deploy" /\ calls[c].pc = "port" /\ calls'[c].pc = "save")
        => \A s \in DOMAIN projects :
              projects[s].enabled => projects[s].host_port # calls'[c].cfg.host_port]_vars

\* C19: rebuild of a slug that is not a key of the map returns ProjectNotFound
\* in its first step and leaves the queue alone; rebuild of a slug of the map
\* goes on to its send, which appends one Rebuild job of the slug without a
\* commit to the queue and returns success in the same step, with no step of
\* any task and no change of the engine, the records or the in-flight set
\* taken by the call.
C19_RebuildEnqueuesOnce ==
    [][\A c \in CallIds :
        /\ (NextCall(c) /\ calls'[c].op = "rebuild") =>
              /\ UNCHANGED <<queue, tasks, building, projects, disk, containers, images>>
              /\ IF calls'[c].slug \in DOMAIN projects
                 THEN calls'[c].pc = "send"
                 ELSE calls'[c].pc = "done" /\ calls'[c].res = "ProjectNotFound"
        /\ (calls[c].op = "rebuild" /\ calls[c].pc = "send" /\ calls'[c] # calls[c]) =>
              /\ queue' = Append(queue, Job("Rebuild", calls[c].slug))
              /\ calls'[c].pc = "done" /\ calls'[c].res = "ok"
              /\ UNCHANGED <<tasks, building, projects, disk, containers, images>>
        /\ (calls[c].op = "rebuild" /\ calls[c].pc = "done") => calls'[c] = calls[c]]_vars

\* a rebuild call has returned success while its job is still on the queue
\* and no task has been spawned for it
C19_Witness ==
    \E c \in CallIds :
        /\ calls[c].op = "rebuild" /\ calls[c].pc = "done" /\ calls[c].res = "ok"
        /\ \E i \in DOMAIN queue : queue[i].kind = "Rebuild" /\ queue[i].slug = calls[c].slug
        /\ \A t \in TaskIds : tasks[t].kind # "Rebuild"

\* ------------------------------------------------- claims about the webhook
\* the call takes its first step as a webhook delivery for a slug of the map
Delivered(c) == NextCall(c) /\ calls'[c].op = "webhook" /\ calls'[c].cfg # NoConfig

\* the ref names the branch the record tracks
NamesTracked(git_ref, cfg) == git_ref = <<"refs", "/", "heads", "/">> \o cfg.branch

\* the delivery has answered status without putting a job on the queue
Answered(c, status) ==
    /\ calls'[c].pc = "done" /\ calls'[c].res = status
    /\ UNCHANGED queue

\* C15: for a slug of the map and a well-formed push body, a delivery whose
\* header is "sha256=" followed by the hex tag of the body under the record's
\* secret is answered 200 (at once, or by the send that follows); a delivery
\* whose header is that value with one byte changed, or whose body is such a
\* signed body with one byte changed, is answered 401 and enqueues nothing.
C15_SignatureDecides ==
    [][\A c \in CallIds :
        /\ Delivered(c) =>
            LET r == calls'[c].req
                secret == calls'[c].cfg.secret
            IN  /\ (ParsePushEvent(r.body).ok /\ r.header = Sign(secret, r.body)) =>
                      /\ calls'[c].res \in {"", "200"}
                      /\ calls'[c].res = "" => calls'[c].pc = "send"
                /\ (\E b \in Bodies : /\ ParsePushEvent(b).ok
                                      /\ r.header \in Alter(Sign(secret, b), AlterChars)
                                      /\ r.body = b) => Answered(c, "401")
                /\ (\E b \in Bodies : /\ ParsePushEvent(b).ok
                                      /\ r.header = Sign(secret, b)
                                      /\ r.body \in Alter(b, Bytes)) => Answered(c, "401")
        /\ (calls[c].op = "webhook" /\ calls[c].pc = "send" /\ calls'[c] # calls[c]) =>
              calls'[c].pc = "done" /\ calls'[c].res = "200"
        /\ (calls[c].op = "webhook" /\ calls[c].pc = "done") => calls'[c] = calls[c]]_vars

\* a push to the tracked branch whose signature has one byte changed was
\* answered 401, and the queue holds no job of a webhook
C15_Witness ==
    \E c \in CallIds :
        /\ calls[c].op = "webhook" /\ calls[c].res = "401"
        /\ calls[c].req.header \in Alter(Sign(calls[c].cfg.secret, calls[c].req.body), AlterChars)
        /\ NamesTracked(ParsePushEvent(calls[c].req.body).git_ref, calls[c].cfg)
        /\ \A i \in DOMAIN queue : queue[i].commit_sha = "None"

\* C16: a delivery without the signature header is never answered 401; when its
\* body is a well-formed push to the tracked branch it goes on to the send,
\* which appends the Rebuild of the slug at the pushed commit and answers 200.
C16_MissingHeaderAccepted ==
    [][\A c \in CallIds :
        /\ (Delivered(c) /\ calls'[c].req.header = NoHeader) =>
            LET event == ParsePushEvent(calls'[c].req.body)
            IN  /\ calls'[c].res # "401"
                /\ (event.ok /\ NamesTracked(event.git_ref, calls'[c].cfg)) =>
                      calls'[c].pc = "send" /\ calls'[c].res = "" /\ UNCHANGED queue
        /\ (/\ calls[c].op = "webhook" /\ calls[c].pc = "send"
            /\ calls[c].req.header = NoHeader /\ calls'[c] # calls[c]) =>
              /\ calls'[c].pc = "done" /\ calls'[c].res = "200"
              /\ queue' = Append(queue, RebuildJobAt(calls[c].slug,
                                     ParsePushEvent(calls[c].req.body).after))]_vars

\* an unsigned push to the tracked branch was answered 200 and its job is the
\* last of the queue
C16_Witness ==
    \E c \in CallIds :
        /\ calls[c].op = "webhook" /\ calls[c].pc = "done" /\ calls[c].res = "200"
        /\ calls[c].req.header = NoHeader
        /\ queue # <<>>
        /\ queue[Len(queue)] = RebuildJobAt(calls[c].slug, ParsePushEvent(calls[c].req.body).after)

\* the delivery passes the signature step: no header, or the hex tag of the
\* body under the record's secret with or without the "sha256=" prefix
PassesSignature(r, cfg) ==
    r.header \in {NoHeader, Sign(cfg.secret, r.body), HexEncode(HmacSha256(cfg.secret, r.body))}

\* C17: a delivery that passes the signature step and whose ref is
\* "refs/heads/" followed by the tracked branch is not answered in its first
\* step; its next step appends one Rebuild of the slug at commit `after` to
\* the queue and answers 200 in that same step, and the call does nothing
\* afterwards.
C17_TrackedPushEnqueuesOnce ==
    [][\A c \in CallIds :
        /\ (/\ Delivered(c) /\ PassesSignature(calls'[c].req, calls'[c].cfg)
            /\ ParsePushEvent(calls'[c].req.body).ok
            /\ NamesTracked(ParsePushEvent(calls'[c].req.body).git_ref, calls'[c].cfg)) =>
              calls'[c].pc = "send" /\ calls'[c].res = "" /\ UNCHANGED queue
        /\ (calls[c].op = "webhook" /\ calls[c].pc = "send" /\ calls'[c] # calls[c]) =>
              /\ queue' = Append(queue, RebuildJobAt(calls[c].slug,
                                     ParsePushEvent(calls[c].req.body).after))
              /\ calls'[c].pc = "done" /\ calls'[c].res = "200"
        /\ (calls[c].op = "webhook" /\ calls[c].res = "200") =>
              calls'[c] = calls[c] /\ UNCHANGED queue]_vars

\* a signed push to the tracked branch was answered 200 with its job behind
\* the job that was on the queue before
C17_Witness ==
    \E c \in CallIds :
        /\ calls[c].op = "webhook" /\ calls[c].pc = "done" /\ calls[c].res = "200"
        /\ calls[c].req.header = Sign(calls[c].cfg.secret, calls[c].req.body)
        /\ queue = <<Job("Rebuild", calls[c].slug),
                     RebuildJobAt(calls[c].slug, ParsePushEvent(calls[c].req.body).after)>>

\* C18: a delivery for a slug of the map that passes the signature step and
\* whose well-formed body carries a ref other than "refs/heads/" followed by
\* the tracked branch is answered 200 in its first step and changes neither
\* the queue, the record map, the disk, the containers nor the images.
C18_OtherRefIgnored ==
    [][\A c \in CallIds :
        (/\ Delivered(c) /\ PassesSignature(calls'[c].req, calls'[c].cfg)
         /\ ParsePushEvent(calls'[c].req.body).ok
         /\ ~NamesTracked(ParsePushEvent(calls'[c].req.body).git_ref, calls'[c].cfg)) =>
            /\ Answered(c, "200")
            /\ UNCHANGED <<projects, disk, containers, images, building, tasks>>]_vars

\* a push of a tag named like the tracked branch was answered 200 and the
\* queue is as it was
C18_Witness ==
    \E c \in CallIds :
        /\ calls[c].op = "webhook" /\ calls[c].pc = "done" /\ calls[c].res = "200"
        /\ ParsePushEvent(calls[c].req.body).git_ref
             = <<"refs", "/", "tags", "/">> \o calls[c].cfg.branch
        /\ queue = <<Job("Rebuild", calls[c].slug)>>

\* C20: at every point of a save, also when the daemon is killed in the middle
\* of it, the record file of a slug holds a complete record: load succeeds on
\* every record file that exists.
C20_SaveAtomic ==
    \A s \in DOMAIN disk : ProjectConfigLoad(disk, s).ok

\* ---------------------------------------------------------------- C21
\* C21: every record of the in-memory map and every record file on disk is
\* keyed by its own slug, names its container "dockyard-" followed by the
\* slug and its image "dockyard/" followed by the slug.
C21_NamesDerivedFromSlug ==
    /\ \A s \in DOMAIN projects :
          /\ projects[s].slug = s
          /\ projects[s].container_name = "dockyard-" \o s
          /\ projects[s].image_name = "dockyard/" \o s
    /\ \A s \in DOMAIN disk :
          /\ disk[s].slug = s
          /\ disk[s].container_name = "dockyard-" \o s
          /\ disk[s].image_name = "dockyard/" \o s

\* a record that a finished build has stamped is in the map and on disk
C21_Witness ==
    \E s \in DOMAIN projects \cap DOMAIN disk :
        /\ projects[s].updated_at > projects[s].created_at
        /\ disk[s].updated_at > disk[s].created_at

\* ---------------------------------------------------------------- C22
SlugChars == {"a", "b", "i", "7", "-"}

\* C22: the slug derived from any name is a fixed point of slugify, is made
\* of the characters a-z, 0-9 and '-' only, and neither starts nor ends
\* with '-'.
C22_SlugCanonical ==
    \A c \in CallIds :
        (calls[c].op = "deploy" /\ calls[c].pc = "check") =>
            LET slug == calls[c].slug
            IN  /\ Slugify(slug) = slug
                /\ \A i \in 1..Len(slug) : slug[i] \in SlugChars
                /\ slug # <<>> => (slug[1] # "-" /\ slug[Len(slug)] # "-")

\* the part of C22 that the derivation satisfies: fixed point, no '-' at
\* either end
C22_SlugFixedPointTrimmed ==
    \A c \in CallIds :
        (calls[c].op = "deploy" /\ calls[c].pc = "check") =>
            LET slug == calls[c].slug
            IN  /\ Slugify(slug) = slug
                /\ slug # <<>> => (slug[1] # "-" /\ slug[Len(slug)] # "-")

\* ---------------------------------------------------------------- C23
\* C23: whenever no build of a slug is in flight and the container with the
\* record's container_name exists, that container is bound to the record's
\* host_port.
C23_PortMatchesRecord ==
    \A s \in DOMAIN projects :
        (s \notin building /\ projects[s].container_name \in DOMAIN containers) =>
            containers[projects[s].container_name].port = projects[s].host_port

\* ---------------------------------------------------------------- C24
\* no scheduler task is running and no job waits in the queue
SchedulerIdle ==
    queue = <<>> /\ \A t \in TaskIds : tasks[t].pc \in {"idle", "done"}

\* the container names and image tags the daemon derives from a record
NamesOf(cfg) == {cfg.container_name, TempName(cfg.container_name)}
TagsOf(cfg) ==
    {LatestTag(cfg.image_name)} \cup {BuildTag(cfg.image_name, n) : n \in 0..clock}

\* C24: whenever the scheduler is idle, every container and every image in
\* the engine belongs to a slug that has a record in the map.
C24_NoOrphans ==
    SchedulerIdle =>
        /\ \A n \in DOMAIN containers :
              \E s \in DOMAIN projects : n \in NamesOf(projects[s])
        /\ \A g \in DOMAIN images :
              \E s \in DOMAIN projects : g \in TagsOf(projects[s])

\* ---------------------------------------------------------------- C25
\* C25: the reconcile step of the bootstrap never waits on a full queue:
\* whenever its next step is the send of a Deploy job, the queue, which has
\* no consumer until the loop is over, has room for it.
C25_BootstrapNeverBlocks ==
    \A c \in CallIds : BootAtSend(c) => BootCanSend(c)

\* ---------------------------------------------------------------- C26
\* no control-API call and no scheduler task is in progress
AllQuiet ==
    /\ \A c \in CallIds : calls[c].pc \in {"idle", "done"}
    /\ \A t \in TaskIds : tasks[t].pc \in {"idle", "done"}

\* C26: whenever no call and no task is in progress, the slugs of the map are
\* the slugs with a record file on disk and every record of the map equals
\* its persisted record.
C26_MapEqualsDisk ==
    AllQuiet =>
        /\ DOMAIN projects = DOMAIN disk
        /\ \A s \in DOMAIN projects : projects[s] = disk[s]

\* ---------------------------------------------------------------- C27
\* C27: of the deploy calls that derive the same slug and overlap, at most
\* one returns success.  The model has no third call that could delete the
\* record in between, so two successes for one slug are two overlapping calls.
C27_OneDeployWins ==
    \A c, d \in CallIds :
        (/\ c # d
         /\ calls[c].op = "deploy" /\ calls[d].op = "deploy"
         /\ calls[c].slug = calls[d].slug
         /\ calls[c].pc = "done" /\ calls[c].res = "ok") =>
            ~(calls[d].pc = "done" /\ calls[d].res = "ok")

\* ---------------------------------------------------------------- C28
RebuildInFlight(s) ==
    \E t \in TaskIds :
        tasks[t].kind = "Rebuild" /\ tasks[t].slug = s /\ Holding(t)

\* C28: whenever no rebuild of a slug is in flight, no container with the
\* transient name of its record exists.
C28_NoTransientLeftover ==
    \A s \in DOMAIN projects :
        ~RebuildInFlight(s) =>
            TempName(projects[s].container_name) \notin DOMAIN containers

\* ---------------------------------------------------------------- C29
\* the last request for the slug that has been made is a stop that succeeded
StoppedByOperator(s) ==
    \E c \in CallIds :
        /\ calls[c].op = "stop" /\ calls[c].slug = s
        /\ calls[c].pc = "done" /\ calls[c].res = "ok"
        /\ \A d \in CallIds : d > c => calls[d].slug # s

\* C29: while the last request made for an enabled project is a stop that
\* succeeded, its container is not running.
C29_StopSticks ==
    \A s \in DOMAIN projects :
        (projects[s].enabled /\ StoppedByOperator(s)) =>
            ~Running(containers, projects[s].container_name)

\* ---------------------------------------------------------------- C30
\* the engine after a completed rebuild by task t: the canonical container
\* exists and runs the image built by t, the transient container does not
\* exist, ":latest" names that image and the build tag is gone
SwitchedOver(t) ==
    LET cfg == tasks[t].snap
    IN  /\ cfg.container_name \in DOMAIN containers'
        /\ containers'[cfg.container_name].image = t
        /\ TempName(cfg.container_name) \notin DOMAIN containers'
        /\ LatestTag(cfg.image_name) \in DOMAIN images'
        /\ images'[LatestTag(cfg.image_name)] = t
        /\ NewTag(t) \notin DOMAIN images'

\* updated_at of the record of task t is advanced in the map and on disk
Stamped(t) ==
    LET slug == tasks[t].slug
    IN  /\ slug \in DOMAIN projects' /\ slug \in DOMAIN disk'
        /\ projects'[slug].updated_at > tasks[t].snap.updated_at
        /\ disk'[slug].updated_at = projects'[slug].updated_at

\* C30: the step that completes a rebuild successfully leaves the project
\* switched over to the new image and its record stamped in the map and on
\* disk.
C30_RebuildPostcondition ==
    [][\A t \in TaskIds : RebuildFinish(t) => (SwitchedOver(t) /\ Stamped(t))]_vars

\* the part of C30 that every completed rebuild of the model satisfies: the
\* engine is switched over and updated_at is advanced in the map
C30_SwitchedOverMapStamped ==
    [][\A t \in TaskIds :
          RebuildFinish(t) =>
              /\ SwitchedOver(t)
              /\ tasks[t].slug \in DOMAIN projects'
              /\ projects'[tasks[t].slug].updated_at > tasks[t].snap.updated_at]_vars

\* ---------------------------------------------------------------- C31
\* C31: whatever the watcher did during the switch-over, a rebuild that has
\* issued the removal of the old container finds the canonical name free for
\* the rename, and once the rename has succeeded the canonical name is on the
\* container of the new image and the transient name is gone.
C31_WatcherStartHarmless ==
    \A t \in TaskIds :
        tasks[t].kind = "Rebuild" =>
            LET name == tasks[t].snap.container_name
            IN  /\ tasks[t].pc = "rename" => name \notin DOMAIN containers
                /\ tasks[t].pc \in {"tag", "untag", "finish"} =>
                      /\ name \in DOMAIN containers
                      /\ containers[name].image = t
                      /\ TempName(name) \notin DOMAIN containers

\* the watcher has restarted the old container between its stop and its
\* removal: only the watcher starts a container in this specification
C31_Witness ==
    \E t \in TaskIds :
        /\ tasks[t].kind = "Rebuild" /\ tasks[t].pc = "remove_old"
        /\ Running(containers, tasks[t].snap.container_name)
        /\ Running(containers, TempName(tasks[t].snap.container_name))

\* ---------------------------------------------------------------- C32
\* C32: the task of a Stop or Delete job executes its job in its first step,
\* whether or not the slug is in the exclusion set, and that step leaves the
\* set as it was.
C32_StopDeleteBypassSet ==
    [][\A t \in TaskIds :
          (/\ tasks[t].pc = "start" /\ tasks[t].kind \in {"Stop", "Delete"}
           /\ tasks'[t].pc # "start") =>
              /\ building' = building
              /\ tasks'[t].pc = "done"
              /\ tasks'[t].res \in {"ok", "Docker", "ProjectNotFound"}]_vars

\* a Stop or Delete job has been executed with success while a build of the
\* same slug held the exclusion set
C32_Witness ==
    \E t, u \in TaskIds :
        /\ tasks[t].kind \in {"Stop", "Delete"}
        /\ tasks[t].pc = "done" /\ tasks[t].res = "ok"
        /\ Holding(u) /\ tasks[u].slug = tasks[t].slug
        /\ tasks[t].slug \in building

\* ---------------------------------------------------------------- C33
\* C33: the consumer never waits for a task: whenever a job is on the queue
\* (and the model has a task left to spawn) the consumer can take it, whatever
\* the earlier tasks are doing.
C33_ConsumerNeverWaits ==
    (queue # <<>> /\ spawned < MaxTasks) => ENABLED Dispatch

\* the procedures of two different slugs are executing at the same time, the
\* second job having been taken while the procedure of the first was running
C33_Witness ==
    \E t, u \in TaskIds :
        /\ t < u
        /\ InProcedure(t) /\ InProcedure(u)
        /\ tasks[t].slug # tasks[u].slug
        /\ tasks[t].pc \notin {"snapshot"} /\ tasks[u].pc \notin {"snapshot"}

\* ---------------------------------------------------------------- C34
\* C34: a step of the reconcile loop treats its record by the state of its
\* container: a disabled record is passed over without an engine call (so
\* without an engine error), a running container is left alone, an exited one
\* is started and nothing is enqueued, and for any other state the Deploy job
\* of the slug, and nothing else, is appended to the queue.
C34_ReconcileTable ==
    [][\A c \in CallIds :
          (/\ calls[c].op = "bootstrap" /\ calls[c].pc = "reconcile"
           /\ calls[c].req.body # <<>> /\ calls'[c] # calls[c]) =>
              LET slug == Head(calls[c].req.body)
                  name == projects[slug].container_name
                  visited == calls'[c].pc = "reconcile"
                  raw == IF name \in DOMAIN containers
                         THEN containers[name].state ELSE "absent"
              IN  /\ projects' = projects /\ disk' = disk
                  /\ ~visited => (containers' = containers /\ queue' = queue)
                  /\ ~projects[slug].enabled =>
                        (visited /\ containers' = containers /\ queue' = queue)
                  /\ (projects[slug].enabled /\ visited) =>
                        CASE raw = "running" ->
                                 containers' = containers /\ queue' = queue
                          [] raw = "exited" ->
                                 /\ containers' = [containers EXCEPT ![name].state = "running"]
                                 /\ queue' = queue
                          [] OTHER ->
                                 /\ containers' = containers
                                 /\ queue' = Append(queue, Job("Deploy", slug))]_vars

\* the loop is over with the spawn still to come: a disabled record was
\* passed over, the container of an enabled record runs, and the queue holds
\* the one Deploy job of an enabled record whose container was merely created
C34_Witness ==
    \E c \in CallIds, s1, s2, s3 \in DOMAIN projects :
        /\ calls[c].op = "bootstrap" /\ calls[c].pc = "reconcile"
        /\ calls[c].req.body = <<>>
        /\ ~projects[s1].enabled
        /\ projects[s2].enabled /\ Running(containers, projects[s2].container_name)
        /\ projects[s3].enabled
        /\ GetContainerState(containers, projects[s3].container_name) = "Starting"
        /\ queue = <<Job("Deploy", s3)>>

\* ---------------------------------------------------------------- C35
\* C35: a step of the watcher concerns an enabled record whose container has
\* exited; it leaves the map, the persisted records and the queue as they
\* were, creates and removes no container, and changes at most the state of
\* that one container, to running.
C35_WatcherFrame ==
    [][\A s \in Slugs :
          WatcherVisit(s) =>
              LET name == projects[s].container_name
              IN  /\ projects[s].enabled
                  /\ name \in DOMAIN containers /\ containers[name].state = "exited"
                  /\ projects' = projects /\ disk' = disk /\ queue' = queue
                  /\ images' = images
                  /\ DOMAIN containers' = DOMAIN containers
                  /\ \A n \in DOMAIN containers : n # name => containers'[n] = containers[n]
                  /\ containers'[name] \in
                        {containers[name], [containers[name] EXCEPT !.state = "running"]}]_vars

\* the watcher has started the exited container of an enabled record (no
\* request did: the last request for the slug is a stop) while the exited
\* container of a disabled record stays as it is
C35_Witness ==
    \E s, r \in DOMAIN projects :
        /\ projects[s].enabled /\ StoppedByOperator(s)
        /\ Running(containers, projects[s].container_name)
        /\ ~projects[r].enabled
        /\ GetContainerState(containers, projects[r].container_name) = "Stopped"

\* ---------------------------------------------------------------- C36
\* C36: a delivery for a slug that is not in the map is answered 404 whatever
\* its header and body; for a slug of the map, a header that is present and is
\* not the signature of the body under the record's secret is answered 401
\* whatever the body; a body that does not parse is answered 400 exactly when
\* the header is absent or is that signature; and a delivery answered 404,
\* 401 or 400 is answered in its first step, which leaves the queue as it was.
C36_ChecksInOrder ==
    [][\A c \in CallIds :
          (NextCall(c) /\ calls'[c].op = "webhook") =>
              LET r == calls'[c]
                  known == r.slug \in DOMAIN projects
                  body == r.req.body
                  header == r.req.header
                  good == known /\
                          header \in {Sign(projects[r.slug].secret, body),
                                      HexEncode(HmacSha256(projects[r.slug].secret, body))}
                  parsed == ParsePushEvent(body).ok
              IN  /\ ~known => r.res = "404"
                  /\ (known /\ header # NoHeader /\ ~good) => r.res = "401"
                  /\ (known /\ (header = NoHeader \/ good) /\ ~parsed) => r.res = "400"
                  /\ r.res = "400" => (known /\ (header = NoHeader \/ good) /\ ~parsed)
                  /\ r.res \in {"404", "401", "400"} => (r.pc = "done" /\ queue' = queue)]_vars

\* a delivery whose body does not parse and whose header is a signature with
\* one byte changed has been answered 401
C36_Witness ==
    \E c \in CallIds :
        /\ calls[c].op = "webhook" /\ calls[c].res = "401"
        /\ ~ParsePushEvent(calls[c].req.body).ok
        /\ calls[c].req.header \in Alter(Sign(calls[c].cfg.secret, calls[c].req.body), AlterChars)

\* C37: a status made by list_statuses() or detail(slug) carries uptime,
\* memory and CPU values only when the container was observed Online; for
\* every other observed state the three fields are absent.
C37_StatsOnlyOnline ==
    \A s \in DOMAIN projects :
        LET listed == {st \in ListProjectStatuses(projects, containers) : st.slug = s}
            detail == GetProjectDetail(projects, containers, s).status
        IN \A st \in listed \cup {detail} :
               st.state # "Online" =>
                   /\ st.uptime_secs = <<>>
                   /\ st.memory_usage_mb = <<>>
                   /\ st.cpu_percent = <<>>

\* C38: when the daemon has exited on the interrupt signal, the PID file
\* and the control socket file its server bound (the socket path of the
\* loaded configuration) are gone.
C38_ShutdownRemovesFiles ==
    (calls[1].op = "run" /\ calls[1].pc = "exited") =>
        /\ PidFilePath \notin RunFiles
        /\ calls[2].pc = "serving" => ConfigSocketPath \notin RunFiles

\* C39: every record deploy creates has a non-empty slug and a per-slug
\* directory properly below the projects directory: no record, record file
\* or Deploy job exists for the empty slug.
C39_NoEmptySlug ==
    /\ \A s \in DOMAIN projects \cup DOMAIN disk :
           s # "" /\ ProjectDir(s) # ProjectsDir
    /\ \A i \in 1..Len(queue) : queue[i].slug # ""

====
